---- MODULE Spec2Model ----
(***************************************************************************)
(* The request-economics layer of PitchIntel's backend:                    *)
(*   ResponseCache        src/pitchintel/src/backend/responseCache.ts      *)
(*   TokenTracker         src/pitchintel/src/backend/tokenTracker.ts       *)
(*   ConversationMemory   src/pitchintel/src/backend/conversationMemory.ts *)
(*   OpenAIClient         src/pitchintel/src/backend/openaiClient.ts       *)
(*   the API router       src/pitchintel/src/backend/apiRouter.ts          *)
(*                                                                         *)
(* Conventions.                                                            *)
(*  - Date.now() is the variable now, counted in whole seconds (the source *)
(*    counts milliseconds; every duration of the source is a whole number  *)
(*    of seconds, and 30 days of milliseconds do not fit TLC's integers).  *)
(*    Two operations at the same value of now read the same clock value.   *)
(*  - A JavaScript string is a sequence of symbols; "" is << >>.           *)
(*  - An optional value (undefined / null / absent) is a sequence of       *)
(*    length 0 or 1: None is << >>, Some(x) is << x >>.                    *)
(*  - A Map is a sequence of entries in insertion order (the order in      *)
(*    which Map.entries() iterates).                                       *)
(*  - Money is counted in units of 1/8,000,000 dollar, so that the         *)
(*    tracker's default rate (tokens / 1000000) * 0.375 is 3 * tokens.     *)
(***************************************************************************)
EXTENDS Integers, Sequences, FiniteSets, TLC

VARIABLES
    now,            \* Date.now()
    steps,          \* operations performed so far in this behaviour
    limit,          \* how many operations this behaviour may perform
    ret,            \* what the last operation returned to its caller
    cache,          \* ResponseCache.cache
    totalHits,      \* ResponseCache.totalHits
    totalRequests,  \* ResponseCache.totalRequests
    usage,          \* TokenTracker.usage
    conversations,  \* ConversationMemory.conversations
    nextId,         \* the ids generateId has handed out so far, plus one
    rateLimitDelay, \* OpenAIClient.rateLimitDelay of the singleton, in ms
    calls,          \* the createChatCompletion calls: where each one stands
    owed,           \* the delay the last 429 recorded, until a request is sent
    inflight,       \* the router's handlers suspended at their await
    stored          \* what completed requests had fingerprinted, and when

vars == <<now, steps, limit, ret, cache, totalHits, totalRequests, usage,
          conversations, nextId, rateLimitDelay, calls, owed, inflight, stored>>

trackerVars == <<usage>>

gwVars == <<rateLimitDelay, calls, owed>>

convVars == <<conversations, nextId>>

cacheVars == <<cache, totalHits, totalRequests>>

routerVars == <<inflight, stored>>

None == << >>

Some(x) == << x >>

RemoveAt(s, i) == SubSeq(s, 1, i - 1) \o SubSeq(s, i + 1, Len(s))

(***************************************************************************)
(* The model's bounds.                                                     *)
(***************************************************************************)
\* operations in a behaviour that starts from a cache one entry short of full
MaxFullSteps == 3

\* operations in a behaviour of the cache that starts empty
MaxCacheSteps == 5

\* calls, sweeps and clock steps in a behaviour that follows entries to
\* their expiry
MaxExpirySteps == 5

\* operations in a behaviour of the usage tracker
MaxTrackerSteps == 4

\* operations in a behaviour of the tracker that starts from an aged log
MaxAgedSteps == 3

\* operations in a behaviour of the conversation store
MaxConvSteps == 4

\* conversations created in a behaviour of the conversation store
MaxCreated == 2

\* addMessage calls in a behaviour that fills one conversation with tokens
MaxTrimSteps == 5

\* calls and sweeps in a behaviour of a store whose conversations go idle
MaxSweepSteps == 3

\* operations in a behaviour that starts from a full conversation store
MaxFullConvSteps == 3

\* createChatCompletion calls made on the singleton, any of them concurrently
MaxCalls == 2

\* handlers of the router suspended at the same time
MaxInflight == 2

\* operations in a behaviour of the router on a server just started
MaxRouterSteps == 4

\* operations in a behaviour of the chat route alone
MaxChatSteps == 3

\* operations in a behaviour of the chat route with one request at a time
MaxSeqSteps == 4

\* operations in a behaviour of the router that starts near the token limit
MaxLoadedSteps == 3

\* operations in a behaviour of the router that starts over the cost limit
MaxOverSteps == 2

\* where the clock stands when a behaviour starts (mid-morning of a UTC day)
StartTime == 36000

\* the gateway singleton as constructed, with no call made
GatewayIdle ==
    /\ rateLimitDelay = 0
    /\ calls = << >>
    /\ owed = 0

FreeSlot ==
    [pc |-> "free", endpoint |-> "", messages |-> << >>, temperature |-> None,
     key |-> << >>, convId |-> None]

\* no handler of the router is suspended, and none has completed yet
RouterIdle ==
    /\ inflight = [r \in 1..MaxInflight |-> FreeSlot]
    /\ stored = {}

(***************************************************************************)
(* ResponseCache                                                           *)
(***************************************************************************)
DEFAULT_TTL == 30 * 60

MAX_SIZE == 1000

\* the cache of apiRouter.ts is built with no argument: ttl = 0 || DEFAULT_TTL
ttl == DEFAULT_TTL

CacheKeys(c) == {c[i].key : i \in 1..Len(c)}

\* Map.get / Map.has: the position of key k, 0 when the map does not hold it
CacheFind(c, k) ==
    IF \E i \in 1..Len(c) : c[i].key = k
    THEN CHOOSE i \in 1..Len(c) : c[i].key = k
    ELSE 0

\* Map.delete
CacheRemove(c, k) ==
    IF CacheFind(c, k) = 0 THEN c ELSE RemoveAt(c, CacheFind(c, k))

\* The scan of evictOldest: oldestTime starts at Date.now() and an entry
\* replaces the candidate only when its timestamp is strictly smaller, so the
\* scan ends at the first entry, in iteration order, that holds the smallest
\* timestamp, provided that timestamp is before t; otherwise at null (0).
OldestIndex(c, t) ==
    IF \E i \in 1..Len(c) : c[i].timestamp < t
    THEN CHOOSE i \in 1..Len(c) :
            /\ c[i].timestamp < t
            /\ \A j \in 1..(i - 1) : c[j].timestamp > c[i].timestamp
            /\ \A j \in (i + 1)..Len(c) : c[j].timestamp >= c[i].timestamp
    ELSE 0

\* evictOldest: `if (oldest)` also skips the delete when the key found is ""
evictOldest(c, t) ==
    LET i == OldestIndex(c, t)
    IN  IF i # 0 /\ c[i].key # << >> THEN RemoveAt(c, i) ELSE c

CacheSetKeepFirst(c, k, d, customTTL, t) ==
    LET c1 == IF Len(c) >= MAX_SIZE THEN evictOldest(c, t) ELSE c
        life == IF customTTL # None /\ customTTL[1] # 0 THEN customTTL[1] ELSE ttl
        e == [key |-> k, data |-> d, timestamp |-> t,
              expiresAt |-> t + life, hits |-> 0]
    IN  IF CacheFind(c1, k) = 0 THEN Append(c1, e) ELSE c1

\* set(key, data, customTTL?): evict when full, then Map.set, which replaces
\* the entry of a key already held, in its place, and appends a new key
CacheSet(c, k, d, customTTL, t) ==
    LET c1 == IF Len(c) >= MAX_SIZE THEN evictOldest(c, t) ELSE c
        life == IF customTTL # None /\ customTTL[1] # 0 THEN customTTL[1] ELSE ttl
        e == [key |-> k, data |-> d, timestamp |-> t,
              expiresAt |-> t + life, hits |-> 0]
        i == CacheFind(c1, k)
    IN  IF i = 0 THEN Append(c1, e) ELSE [c1 EXCEPT ![i] = e]

\* get(key): the three outcomes, as the cache, the payload and the hit count
CacheGetHit(c, k, t) ==
    /\ CacheFind(c, k) # 0
    /\ ~ (t > c[CacheFind(c, k)].expiresAt)

CacheGetValue(c, k, t) ==
    IF CacheGetHit(c, k, t) THEN Some(c[CacheFind(c, k)].data) ELSE None

CacheAfterGetKeepExpired(c, k, t) ==
    LET i == CacheFind(c, k)
    IN  IF i = 0 \/ t > c[i].expiresAt THEN c
        ELSE [c EXCEPT ![i].hits = @ + 1]

CacheAfterGet(c, k, t) ==
    LET i == CacheFind(c, k)
    IN  IF i = 0 THEN c
        ELSE IF t > c[i].expiresAt THEN RemoveAt(c, i)
        ELSE [c EXCEPT ![i].hits = @ + 1]

CacheSweepAtExpiry(c, t) ==
    LET Live(e) == ~ (t >= e.expiresAt)
    IN  SelectSeq(c, Live)

\* the interval callback of startCleanup
CacheSweep(c, t) ==
    LET Live(e) == ~ (t > e.expiresAt)
    IN  SelectSeq(c, Live)

Budget == steps < limit /\ steps' = steps + 1 /\ UNCHANGED limit

\* ---- the cache's operations as actions ----
Set(k, d, customTTL) ==
    /\ Budget
    /\ cache' = CacheSet(cache, k, d, customTTL, now)
    /\ ret' = [op |-> "set", key |-> k, data |-> d, customTTL |-> customTTL]
    /\ UNCHANGED <<now, totalHits, totalRequests, usage, convVars, gwVars, routerVars>>

Get(k) ==
    /\ Budget
    /\ totalRequests' = totalRequests + 1
    /\ totalHits' = IF CacheGetHit(cache, k, now) THEN totalHits + 1 ELSE totalHits
    /\ cache' = CacheAfterGet(cache, k, now)
    /\ ret' = [op |-> "get", key |-> k, value |-> CacheGetValue(cache, k, now)]
    /\ UNCHANGED <<now, usage, convVars, gwVars, routerVars>>

Has(k) ==
    /\ Budget
    /\ cache' = IF CacheFind(cache, k) # 0 /\ now > cache[CacheFind(cache, k)].expiresAt
                THEN CacheRemove(cache, k) ELSE cache
    /\ ret' = [op |-> "has", key |-> k, value |-> CacheGetHit(cache, k, now)]
    /\ UNCHANGED <<now, totalHits, totalRequests, usage, convVars, gwVars, routerVars>>

Delete(k) ==
    /\ Budget
    /\ cache' = CacheRemove(cache, k)
    /\ ret' = [op |-> "delete", key |-> k, value |-> (CacheFind(cache, k) # 0)]
    /\ UNCHANGED <<now, totalHits, totalRequests, usage, convVars, gwVars, routerVars>>

ClearEntriesOnly ==
    /\ Budget
    /\ cache' = << >>
    /\ ret' = [op |-> "clear"]
    /\ UNCHANGED <<now, totalHits, totalRequests, usage, convVars, gwVars, routerVars>>

Clear ==
    /\ Budget
    /\ cache' = << >>
    /\ totalHits' = 0
    /\ totalRequests' = 0
    /\ ret' = [op |-> "clear"]
    /\ UNCHANGED <<now, usage, convVars, gwVars, routerVars>>

Sweep ==
    /\ Budget
    /\ cache' = CacheSweep(cache, now)
    /\ ret' = [op |-> "sweep"]
    /\ UNCHANGED <<now, totalHits, totalRequests, usage, convVars, gwVars, routerVars>>

\* getStats: hitRate is the quotient totalHits / totalRequests, kept as
\* <<numerator, denominator>>; 0 is <<0, 1>>
GetStats ==
    /\ Budget
    /\ ret' = [op |-> "getStats", size |-> Len(cache), maxSize |-> MAX_SIZE,
               hitRate |-> IF totalRequests > 0 THEN <<totalHits, totalRequests>>
                           ELSE <<0, 1>>,
               totalHits |-> totalHits, totalRequests |-> totalRequests]
    /\ UNCHANGED <<now, cacheVars, usage, convVars, gwVars, routerVars>>

\* the clock moves on by d seconds
Tick(d) ==
    /\ Budget
    /\ now' = now + d
    /\ ret' = [op |-> "tick"]
    /\ UNCHANGED <<cacheVars, usage, convVars, gwVars, routerVars>>

(***************************************************************************)
(* SpecCacheFull: the cache from a state one entry short of its capacity.  *)
(* MAX_SIZE - 1 keys were set before: all at the clock value the behaviour *)
(* starts at (fill = "burst"), or over the last three seconds, the oldest  *)
(* of them second in insertion order (fill = "spread").                    *)
(***************************************************************************)
FullKeys == {<< >>, <<1>>, <<MAX_SIZE>>, <<MAX_SIZE + 1>>}

FullTTLs == {None, Some(60)}

FullTicks == {1, DEFAULT_TTL + 1}

FilledCache(fill) ==
    [i \in 1..(MAX_SIZE - 1) |->
        LET t == IF fill = "burst" THEN StartTime ELSE StartTime - (i % 3)
        IN  [key |-> <<i>>, data |-> "r", timestamp |-> t,
             expiresAt |-> t + ttl, hits |-> 0]]

InitCacheFull ==
    /\ now = StartTime
    /\ steps = 0
    /\ limit = MaxFullSteps
    /\ ret = [op |-> "init"]
    /\ \E fill \in {"burst", "spread"} : cache = FilledCache(fill)
    /\ totalHits = 0
    /\ totalRequests = 0
    /\ usage = << >>
    /\ conversations = << >>
    /\ nextId = 1
    /\ GatewayIdle
    /\ RouterIdle

NextCacheFull ==
    \/ \E k \in FullKeys, c \in FullTTLs : Set(k, "r", c)
    \/ \E k \in FullKeys : Get(k)
    \/ \E k \in FullKeys : Has(k)
    \/ \E k \in FullKeys : Delete(k)
    \/ Clear
    \/ Sweep
    \/ \E d \in FullTicks : Tick(d)

SpecCacheFull == InitCacheFull /\ [][NextCacheFull]_vars

\* C3: after any sequence of set, get, has, delete, clear and sweeps, at any
\* clock values, the cache never holds more than MAX_SIZE entries.
C3_NeverOverCapacity == Len(cache) <= MAX_SIZE

\* C4: whenever set is called while the cache is at capacity, exactly one
\* entry is evicted before the insert, and it is an entry with the smallest
\* creation timestamp among the current entries (whatever the hit counts).
C4_SetAtCapacityEvictsOldest ==
    [][(ret'.op = "set" /\ steps' = steps + 1 /\ Len(cache) >= MAX_SIZE) =>
        \E i \in 1..Len(cache) :
            /\ \A j \in 1..Len(cache) : cache[i].timestamp <= cache[j].timestamp
            /\ CacheKeys(cache') = (CacheKeys(cache) \ {cache[i].key}) \cup {ret'.key}]_vars

\* C18: get on a key whose entry has expired (the clock is past its
\* expiresAt) removes that entry and no other, returns null and counts as a
\* miss: totalRequests goes up by one and totalHits stays.
C18_ExpiredGetIsMiss ==
    [][(ret'.op = "get" /\ steps' = steps + 1) =>
        \A i \in 1..Len(cache) :
            (cache[i].key = ret'.key /\ now > cache[i].expiresAt) =>
                /\ ret'.value = << >>
                /\ ret'.key \notin CacheKeys(cache')
                /\ Len(cache') = Len(cache) - 1
                /\ \A j \in 1..Len(cache') : cache'[j] = cache[IF j < i THEN j ELSE j + 1]
                /\ totalRequests' = totalRequests + 1
                /\ totalHits' = totalHits]_vars

\* the clock passed the lifetime of the entries the cache started with, and
\* the first get since then was for one of them
C18_Witness ==
    /\ steps = 2
    /\ now > StartTime + 1800
    /\ ret.op = "get"
    /\ ret.key = <<1>>
    /\ ret.value = << >>
    /\ Len(cache) = 998
    /\ totalRequests = 1
    /\ totalHits = 0

(***************************************************************************)
(* SpecCache: the cache from its construction, with two keys.              *)
(***************************************************************************)
SmallKeys == {<<1>>, <<2>>}

InitCache ==
    /\ now = StartTime
    /\ steps = 0
    /\ limit = MaxCacheSteps
    /\ ret = [op |-> "init"]
    /\ cache = << >>
    /\ totalHits = 0
    /\ totalRequests = 0
    /\ usage = << >>
    /\ conversations = << >>
    /\ nextId = 1
    /\ GatewayIdle
    /\ RouterIdle

NextCache ==
    \/ \E k \in SmallKeys, c \in FullTTLs : Set(k, "r", c)
    \/ \E k \in SmallKeys : Get(k)
    \/ \E k \in SmallKeys : Has(k)
    \/ \E k \in SmallKeys : Delete(k)
    \/ Clear
    \/ Sweep
    \/ GetStats
    \/ \E d \in FullTicks : Tick(d)

SpecCache == InitCache /\ [][NextCache]_vars

\* C24: totalRequests counts the get calls since the last clear (or the
\* construction) and totalHits those of them that returned a payload, so
\* 0 <= totalHits <= totalRequests; getStats reports hitRate = totalHits /
\* totalRequests, and 0 when totalRequests is 0; clear empties the cache and
\* sets both counters to 0; set, has, delete and the sweep leave them.
C24_CountersCountGets ==
    /\ totalHits = 0 /\ totalRequests = 0
    /\ [](0 <= totalHits /\ totalHits <= totalRequests)
    /\ [][steps' # steps =>
            IF ret'.op = "get"
            THEN /\ totalRequests' = totalRequests + 1
                 /\ totalHits' = totalHits + (IF ret'.value # << >> THEN 1 ELSE 0)
            ELSE IF ret'.op = "clear"
            THEN cache' = << >> /\ totalHits' = 0 /\ totalRequests' = 0
            ELSE /\ totalHits' = totalHits
                 /\ totalRequests' = totalRequests
                 /\ ret'.op = "getStats" =>
                        /\ ret'.totalHits = totalHits
                        /\ ret'.totalRequests = totalRequests
                        /\ ret'.hitRate[2] > 0
                        /\ IF totalRequests = 0 THEN ret'.hitRate[1] = 0
                           ELSE ret'.hitRate[1] * totalRequests
                                    = totalHits * ret'.hitRate[2]]_vars

\* getStats after a hit and a miss, with an entry stored: one hit in two
\* requests
C24_Witness ==
    /\ ret.op = "getStats"
    /\ ret.totalHits = 1
    /\ ret.totalRequests = 2
    /\ ret.hitRate = <<1, 2>>
    /\ ret.size = 1

(***************************************************************************)
(* SpecExpiry: the cache from its construction, with two keys, entries set *)
(* without a TTL, with a TTL of 0 and with one of a minute, and a clock    *)
(* that reaches the instant an entry expires and the second after it.      *)
(***************************************************************************)
ExpiryTTLs == {None, Some(0), Some(60)}

ExpiryTicks == {1, 59, DEFAULT_TTL - 60}

InitExpiry ==
    /\ now = StartTime
    /\ steps = 0
    /\ limit = MaxExpirySteps
    /\ ret = [op |-> "init"]
    /\ cache = << >>
    /\ totalHits = 0
    /\ totalRequests = 0
    /\ usage = << >>
    /\ conversations = << >>
    /\ nextId = 1
    /\ GatewayIdle
    /\ RouterIdle

NextExpiry ==
    \/ \E k \in SmallKeys, c \in ExpiryTTLs : Set(k, "r", c)
    \/ \E k \in SmallKeys : Get(k)
    \/ Sweep
    \/ \E d \in ExpiryTicks : Tick(d)

SpecExpiry == InitExpiry /\ [][NextExpiry]_vars

EntriesOf(c) == {c[i] : i \in 1..Len(c)}

\* C32: each run of the background sweep removes exactly the entries whose
\* expiresAt is earlier than the sweep time, read or not, and leaves the
\* other entries and the hit/miss counters as they were; so after a sweep
\* the cache holds no entry that expired before it.
C32_SweepRemovesExpiredOnly ==
    [][(steps' # steps /\ ret'.op = "sweep") =>
        /\ EntriesOf(cache') = {e \in EntriesOf(cache) : ~ (e.expiresAt < now)}
        /\ Len(cache') = Cardinality(CacheKeys(cache'))
        /\ \A i \in 1..Len(cache') : ~ (cache'[i].expiresAt < now')
        /\ totalHits' = totalHits
        /\ totalRequests' = totalRequests]_vars

\* a sweep at the very instant an entry that was never read expires: the
\* entry is kept
C32_Witness ==
    /\ ret.op = "sweep"
    /\ steps = 5
    /\ totalRequests = 0
    /\ Len(cache) = 1
    /\ cache[1].expiresAt = now

\* C35: a per-call TTL passed to set overrides the default of 30 minutes: for
\* any supplied TTL value t (0 included) the entry's expiresAt is its
\* creation time plus t, and only when no TTL is supplied does the entry live
\* for the default TTL; get returns the payload up to expiresAt and null
\* after it.
C35_CustomTTLOverrides ==
    [][/\ (steps' # steps /\ ret'.op = "set") =>
            LET e == cache'[CacheFind(cache', ret'.key)]
            IN  /\ CacheFind(cache', ret'.key) # 0
                /\ e.timestamp = now
                /\ e.expiresAt = now + (IF ret'.customTTL = None THEN 30 * 60
                                        ELSE ret'.customTTL[1])
       /\ (steps' # steps /\ ret'.op = "get" /\ CacheFind(cache, ret'.key) # 0) =>
            LET e == cache[CacheFind(cache, ret'.key)]
            IN  IF now <= e.expiresAt THEN ret'.value = Some(e.data)
                ELSE ret'.value = None]_vars

\* C39: set on a key that is already in the cache replaces that key's entry
\* (new payload, new creation and expiry times, hit count 0) and leaves every
\* other key's entry in the cache, including when the cache is at capacity.
C39_SetReplacesInPlace ==
    [][(steps' # steps /\ ret'.op = "set" /\ ret'.key \in CacheKeys(cache)) =>
        /\ CacheKeys(cache') = CacheKeys(cache)
        /\ Len(cache') = Len(cache)
        /\ \A i \in 1..Len(cache) :
            cache[i].key # ret'.key => \E j \in 1..Len(cache') : cache'[j] = cache[i]
        /\ \A j \in 1..Len(cache') :
            cache'[j].key = ret'.key =>
                /\ cache'[j].data = ret'.data
                /\ cache'[j].timestamp = now
                /\ cache'[j].expiresAt > now
                /\ cache'[j].hits = 0]_vars

(***************************************************************************)
(* TokenTracker                                                            *)
(***************************************************************************)
DAY == 24 * 60 * 60

THIRTY_DAYS == 30 * 24 * 60 * 60

\* new Date(ts).toISOString().split("T")[0]: the UTC calendar day of ts
DateOf(ts) == ts \div DAY

\* Array.reduce((sum, u) => sum + f(u), 0), summed by halves
RECURSIVE SumTokensIn(_, _, _)
SumTokensIn(us, lo, hi) ==
    IF lo > hi THEN 0
    ELSE IF lo = hi THEN us[lo].tokens
    ELSE SumTokensIn(us, lo, (lo + hi) \div 2) + SumTokensIn(us, (lo + hi) \div 2 + 1, hi)

SumTokens(us) == SumTokensIn(us, 1, Len(us))

RECURSIVE SumCostIn(_, _, _)
SumCostIn(us, lo, hi) ==
    IF lo > hi THEN 0
    ELSE IF lo = hi THEN us[lo].cost
    ELSE SumCostIn(us, lo, (lo + hi) \div 2) + SumCostIn(us, (lo + hi) \div 2 + 1, hi)

SumCost(us) == SumCostIn(us, 1, Len(us))

trackKeepDay(us, endpoint, tokens, actualCost, t) ==
    LET cost == IF actualCost # None THEN actualCost[1] ELSE 3 * tokens
        pushed == Append(us, [endpoint |-> endpoint, tokens |-> tokens,
                              timestamp |-> t, cost |-> cost])
        Recent(u) == u.timestamp > t - DAY
    IN  SelectSeq(pushed, Recent)

trackKeepBoundary(us, endpoint, tokens, actualCost, t) ==
    LET cost == IF actualCost # None THEN actualCost[1] ELSE 3 * tokens
        pushed == Append(us, [endpoint |-> endpoint, tokens |-> tokens,
                              timestamp |-> t, cost |-> cost])
        Recent(u) == u.timestamp >= t - THIRTY_DAYS
    IN  SelectSeq(pushed, Recent)

\* track(endpoint, tokens, actualCost?): push, then keep the last 30 days
track(us, endpoint, tokens, actualCost, t) ==
    LET cost == IF actualCost # None THEN actualCost[1] ELSE 3 * tokens
        pushed == Append(us, [endpoint |-> endpoint, tokens |-> tokens,
                              timestamp |-> t, cost |-> cost])
        Recent(u) == u.timestamp > t - THIRTY_DAYS
    IN  SelectSeq(pushed, Recent)

\* getStats: the totals over the whole log (the per-day and per-endpoint
\* breakdowns regroup the same records)
getStats(us) ==
    [totalTokens |-> SumTokens(us), totalCost |-> SumCost(us), requestCount |-> Len(us)]

getTodaysUsage(us, t) ==
    LET Today(u) == DateOf(u.timestamp) = DateOf(t)
        todayUsage == SelectSeq(us, Today)
    IN  [tokens |-> SumTokens(todayUsage), cost |-> SumCost(todayUsage),
         requests |-> Len(todayUsage)]

checkDailyLimitsStrict(us, maxDailyCost, maxDailyTokens, t) ==
    LET today == getTodaysUsage(us, t)
    IN  [costExceeded |-> today.cost > maxDailyCost,
         tokensExceeded |-> today.tokens > maxDailyTokens]

checkDailyLimits(us, maxDailyCost, maxDailyTokens, t) ==
    LET today == getTodaysUsage(us, t)
    IN  [costExceeded |-> today.cost >= maxDailyCost,
         tokensExceeded |-> today.tokens >= maxDailyTokens]

\* ---- the tracker's operations as actions ----
Track(endpoint, tokens, actualCost) ==
    /\ Budget
    /\ usage' = track(usage, endpoint, tokens, actualCost, now)
    /\ ret' = [op |-> "track"]
    /\ UNCHANGED <<now, cacheVars, convVars, gwVars, routerVars>>

\* maxDailyCost and maxDailyTokens default to 10 dollars and 1000000 tokens
CheckDailyLimits(maxCostArg, maxTokensArg) ==
    LET maxDailyCost == IF maxCostArg = None THEN 10 * 8000000 ELSE maxCostArg[1]
        maxDailyTokens == IF maxTokensArg = None THEN 1000000 ELSE maxTokensArg[1]
        r == checkDailyLimits(usage, maxDailyCost, maxDailyTokens, now)
    IN  /\ Budget
        /\ ret' = [op |-> "checkDailyLimits",
                   maxDailyCost |-> maxDailyCost, maxDailyTokens |-> maxDailyTokens,
                   costExceeded |-> r.costExceeded, tokensExceeded |-> r.tokensExceeded]
        /\ UNCHANGED <<now, usage, cacheVars, convVars, gwVars, routerVars>>

ClearStats ==
    /\ Budget
    /\ usage' = << >>
    /\ ret' = [op |-> "clearStats"]
    /\ UNCHANGED <<now, cacheVars, convVars, gwVars, routerVars>>

(***************************************************************************)
(* SpecTracker: the usage tracker alone, from its construction.            *)
(***************************************************************************)
TrackerEndpoints == {"analyze-slides", "chat"}

TrackerTokens == {0, 5000000}

\* no cost given, 10 dollars, 25 dollars
TrackerCosts == {None, Some(10 * 8000000), Some(25 * 8000000)}

\* the defaults, and the limits the router passes
TrackerLimits == {<<None, None>>, <<Some(50 * 8000000), Some(10000000)>>}

TrackerTicks == {1, DAY, THIRTY_DAYS}

InitTracker ==
    /\ now = StartTime
    /\ steps = 0
    /\ limit = MaxTrackerSteps
    /\ ret = [op |-> "init"]
    /\ cache = << >>
    /\ totalHits = 0
    /\ totalRequests = 0
    /\ usage = << >>
    /\ conversations = << >>
    /\ nextId = 1
    /\ GatewayIdle
    /\ RouterIdle

NextTracker ==
    \/ \E e \in TrackerEndpoints, n \in TrackerTokens, c \in TrackerCosts : Track(e, n, c)
    \/ \E l \in TrackerLimits : CheckDailyLimits(l[1], l[2])
    \/ ClearStats
    \/ \E d \in TrackerTicks : Tick(d)

SpecTracker == InitTracker /\ [][NextTracker]_vars

\* the records of the log that are dated today (the UTC day of now)
TodaysIndexes == {i \in 1..Len(usage) : usage[i].timestamp \div DAY = now \div DAY}

RECURSIVE SumOver(_, _)
SumOver(S, field) ==
    IF S = {} THEN 0
    ELSE LET i == CHOOSE j \in S : TRUE
         IN  (IF field = "cost" THEN usage[i].cost ELSE usage[i].tokens)
             + SumOver(S \ {i}, field)

\* C6: checkDailyLimits(maxCost, maxTokens) returns costExceeded = true iff
\* the cost summed over today's records is >= maxCost, tokensExceeded = true
\* iff the tokens summed over them are >= maxTokens, and changes no tracker
\* state.
C6_CheckDailyLimitsExact ==
    [][(ret'.op = "checkDailyLimits" /\ steps' = steps + 1) =>
        /\ usage' = usage
        /\ ret'.costExceeded <=> (SumOver(TodaysIndexes, "cost") >= ret'.maxDailyCost)
        /\ ret'.tokensExceeded <=> (SumOver(TodaysIndexes, "tokens") >= ret'.maxDailyTokens)]_vars

\* a check that found today's cost equal to the limit, and today's tokens too
C6_Witness ==
    /\ ret.op = "checkDailyLimits"
    /\ Len(usage) >= 2
    /\ SumOver(TodaysIndexes, "cost") = ret.maxDailyCost
    /\ SumOver(TodaysIndexes, "tokens") = ret.maxDailyTokens
    /\ ret.costExceeded
    /\ ret.tokensExceeded

(***************************************************************************)
(* SpecTrackerAged: the tracker from a log whose records were tracked      *)
(* about 30 days before the behaviour starts (a second more, exactly 30    *)
(* days, a second less, in that order) with no track call since. The clock *)
(* counts from the midnight that begins the UTC day the behaviour starts   *)
(* in, so these timestamps are below 0.                                    *)
(***************************************************************************)
AgedRecord(age) ==
    [endpoint |-> "chat", tokens |-> 1000, timestamp |-> StartTime - age, cost |-> 3000]

AgedLog == << AgedRecord(THIRTY_DAYS + 1), AgedRecord(THIRTY_DAYS), AgedRecord(THIRTY_DAYS - 1) >>

InitTrackerAged ==
    /\ now = StartTime
    /\ steps = 0
    /\ limit = MaxAgedSteps
    /\ ret = [op |-> "init"]
    /\ cache = << >>
    /\ totalHits = 0
    /\ totalRequests = 0
    /\ usage = AgedLog
    /\ conversations = << >>
    /\ nextId = 1
    /\ GatewayIdle
    /\ RouterIdle

SpecTrackerAged == InitTrackerAged /\ [][NextTracker]_vars

\* a track step leaves the earlier records that InWindow accepts, in their
\* order, and after them one record stamped with the clock
TrackLeaves(InWindow(_)) ==
    LET kept == SelectSeq(usage, InWindow)
    IN  /\ Len(usage') = Len(kept) + 1
        /\ SubSeq(usage', 1, Len(kept)) = kept
        /\ usage'[Len(usage')].timestamp = now
        /\ usage'[Len(usage')].tokens \in TrackerTokens
        /\ usage'[Len(usage')].endpoint \in TrackerEndpoints

\* C22: after every track call the log holds, in insertion order, exactly
\* the earlier records that are not older than 30 days, and the new record
\* last; no operation other than track and clearStats removes records.
C22_TrackKeepsNotOlder ==
    [][steps' # steps =>
        LET NotOlder(u) == now - u.timestamp <= 30 * 24 * 60 * 60
        IN  IF ret'.op = "track" THEN TrackLeaves(NotOlder)
            ELSE IF ret'.op = "clearStats" THEN usage' = << >>
            ELSE usage' = usage]_vars

\* C22 as the code has it: track keeps the earlier records less than 30 days
\* old; a record exactly 30 days old goes with the older ones.
C22_TrackKeepsYounger ==
    [][steps' # steps =>
        LET Younger(u) == now - u.timestamp < 30 * 24 * 60 * 60
        IN  IF ret'.op = "track" THEN TrackLeaves(Younger)
            ELSE IF ret'.op = "clearStats" THEN usage' = << >>
            ELSE usage' = usage]_vars

\* the first track on the aged log: the records 30 days old and older are
\* gone, the one a second younger is kept before the new record
C22_Witness ==
    /\ ret.op = "track"
    /\ steps = 1
    /\ Len(usage) = 2
    /\ usage[1].timestamp = now - (30 * 24 * 60 * 60 - 1)
    /\ usage[2].timestamp = now

\* C23: as long as no record ages out of the 30-day window and clearStats is
\* not called, getStats' totalTokens, totalCost and requestCount never
\* decrease over track calls with non-negative tokens and cost; within one
\* UTC day getTodaysUsage's tokens, cost and requests never decrease either.
C23_TotalsNeverDecrease ==
    [][(/\ steps' # steps
        /\ ret'.op # "clearStats"
        /\ \A i \in 1..Len(usage) : usage[i].tokens >= 0 /\ usage[i].cost >= 0) =>
            /\ (\A i \in 1..Len(usage) : now' - usage[i].timestamp < 30 * 24 * 60 * 60) =>
                    /\ getStats(usage').totalTokens >= getStats(usage).totalTokens
                    /\ getStats(usage').totalCost >= getStats(usage).totalCost
                    /\ getStats(usage').requestCount >= getStats(usage).requestCount
                    /\ ret'.op = "track" =>
                            getStats(usage').requestCount = getStats(usage).requestCount + 1
            /\ (now' \div 86400 = now \div 86400) =>
                    /\ getTodaysUsage(usage', now').tokens >= getTodaysUsage(usage, now).tokens
                    /\ getTodaysUsage(usage', now').cost >= getTodaysUsage(usage, now).cost
                    /\ getTodaysUsage(usage', now').requests
                            >= getTodaysUsage(usage, now).requests]_vars

\* three requests tracked over two days, the last two today: the totals
\* cover all three and today's usage the last two
C23_Witness ==
    /\ ret.op = "track"
    /\ Len(usage) = 3
    /\ usage[1].timestamp = StartTime
    /\ usage[2].timestamp = StartTime + 86400
    /\ usage[3].timestamp = StartTime + 86400
    /\ getStats(usage).totalTokens = 15000000
    /\ getTodaysUsage(usage, now).tokens = 10000000
    /\ getTodaysUsage(usage, now).requests = 2

(***************************************************************************)
(* ConversationMemory                                                      *)
(***************************************************************************)
MAX_CONVERSATIONS == 100

CONVERSATION_TTL == 24 * 60 * 60

MAX_MESSAGES_PER_CONVERSATION == 50

MAX_TOKENS_PER_CONVERSATION == 8000

\* Math.ceil(text.length / 4)
estimateTokens(text) == (Len(text) + 3) \div 4

\* Array.slice(-k) and Array.slice(0, -k), for k >= 0 (-0 is 0)
SliceFirst(s, k) ==
    IF k = 0 \/ k >= Len(s) THEN s ELSE SubSeq(s, 1, k)

SliceLast(s, k) ==
    IF k = 0 \/ k >= Len(s) THEN s ELSE SubSeq(s, Len(s) - k + 1, Len(s))

SliceButLast(s, k) ==
    IF k = 0 \/ k >= Len(s) THEN << >> ELSE SubSeq(s, 1, Len(s) - k)

RECURSIVE SumMessageTokens(_)
SumMessageTokens(ms) ==
    IF ms = << >> THEN 0 ELSE ms[1].tokens + SumMessageTokens(Tail(ms))

IsSystem(m) == m.role = "system"

IsNotSystem(m) == m.role # "system"

\* Map.get on the conversations: the position of id, 0 when it is not live
ConvFind(cs, id) ==
    IF \E i \in 1..Len(cs) : cs[i].id = id
    THEN CHOOSE i \in 1..Len(cs) : cs[i].id = id
    ELSE 0

\* cleanup(): over the cap, the conversations are sorted by lastActive (a
\* stable sort) and the first size - MAX_CONVERSATIONS of them deleted
cleanupByInsertion(cs) ==
    IF Len(cs) <= MAX_CONVERSATIONS THEN cs
    ELSE SubSeq(cs, Len(cs) - MAX_CONVERSATIONS + 1, Len(cs))

cleanup(cs) ==
    IF Len(cs) <= MAX_CONVERSATIONS THEN cs
    ELSE LET Rank(i) == Cardinality({j \in 1..Len(cs) :
                            \/ cs[j].lastActive < cs[i].lastActive
                            \/ cs[j].lastActive = cs[i].lastActive /\ j <= i})
             doomed == {cs[i].id : i \in {j \in 1..Len(cs) :
                                            Rank(j) <= Len(cs) - MAX_CONVERSATIONS}}
             Kept(c) == c.id \notin doomed
         IN  SelectSeq(cs, Kept)

\* createConversation(systemPrompt?): "" is falsy and seeds no system message
NewConversation(id, systemPrompt, t) ==
    LET seeded == systemPrompt # None /\ systemPrompt[1] # << >>
    IN  [id |-> id,
         messages |-> IF seeded
                      THEN << [role |-> "system", content |-> systemPrompt[1],
                               timestamp |-> t,
                               tokens |-> estimateTokens(systemPrompt[1])] >>
                      ELSE << >>,
         createdAt |-> t,
         lastActive |-> t,
         systemPrompt |-> systemPrompt,
         totalTokens |-> IF seeded THEN estimateTokens(systemPrompt[1]) ELSE 0]

createConversation(cs, id, systemPrompt, t) ==
    cleanup(Append(cs, NewConversation(id, systemPrompt, t)))

RECURSIVE TrimLoopKeepOne(_, _)
TrimLoopKeepOne(total, nonSystem) ==
    IF 10 * total > 8 * MAX_TOKENS_PER_CONVERSATION /\ Len(nonSystem) > 1
    THEN TrimLoopKeepOne(total - nonSystem[1].tokens, Tail(nonSystem))
    ELSE [total |-> total, nonSystem |-> nonSystem]

\* the while loop of trimConversation, over (totalTokens, nonSystemMessages)
RECURSIVE TrimLoop(_, _)
TrimLoop(total, nonSystem) ==
    IF 10 * total > 8 * MAX_TOKENS_PER_CONVERSATION /\ Len(nonSystem) > 2
    THEN TrimLoop(total - nonSystem[1].tokens, Tail(nonSystem))
    ELSE [total |-> total, nonSystem |-> nonSystem]

trimConversationAll(conv) ==
    LET r == TrimLoop(conv.totalTokens, conv.messages)
    IN  [conv EXCEPT !.totalTokens = r.total, !.messages = r.nonSystem]

trimConversation(conv) ==
    LET systemMessages == SelectSeq(conv.messages, IsSystem)
        r == TrimLoop(conv.totalTokens, SelectSeq(conv.messages, IsNotSystem))
    IN  [conv EXCEPT !.totalTokens = r.total,
                     !.messages = systemMessages \o r.nonSystem]

trimMessagesNoRecount(conv) ==
    LET systemMessages == SelectSeq(conv.messages, IsSystem)
        nonSystemMessages == SelectSeq(conv.messages, IsNotSystem)
        keepCount == MAX_MESSAGES_PER_CONVERSATION - Len(systemMessages)
    IN  [conv EXCEPT !.messages = systemMessages \o SliceLast(nonSystemMessages, keepCount)]

trimMessages(conv) ==
    LET systemMessages == SelectSeq(conv.messages, IsSystem)
        nonSystemMessages == SelectSeq(conv.messages, IsNotSystem)
        keepCount == MAX_MESSAGES_PER_CONVERSATION - Len(systemMessages)
        keptMessages == SliceLast(nonSystemMessages, keepCount)
        removedMessages == SliceButLast(nonSystemMessages, keepCount)
    IN  [conv EXCEPT !.totalTokens = @ - SumMessageTokens(removedMessages),
                     !.messages = systemMessages \o keptMessages]

\* tokens || this.estimateTokens(content): undefined and 0 take the estimate
EstimatedTokens(content, tokens) ==
    IF tokens # None /\ tokens[1] # 0 THEN tokens[1] ELSE estimateTokens(content)

OverTokenLimit(conv, content, tokens) ==
    conv.totalTokens + EstimatedTokens(content, tokens) > MAX_TOKENS_PER_CONVERSATION

\* addMessage up to and including the push, for a live conversation
PushMessage(conv, role, content, tokens, t) ==
    LET estimatedTokens == EstimatedTokens(content, tokens)
        message == [role |-> role, content |-> content, timestamp |-> t,
                    tokens |-> estimatedTokens]
        c1 == IF OverTokenLimit(conv, content, tokens) THEN trimConversation(conv) ELSE conv
    IN  [c1 EXCEPT !.messages = Append(@, message),
                   !.lastActive = t,
                   !.totalTokens = @ + estimatedTokens]

OverMessageLimitByTwo(conv) == Len(conv.messages) > MAX_MESSAGES_PER_CONVERSATION + 1

\* conversation.messages.length > this.MAX_MESSAGES_PER_CONVERSATION
OverMessageLimit(conv) == Len(conv.messages) > MAX_MESSAGES_PER_CONVERSATION

\* the body of addMessage for a live conversation
AddToConversation(conv, role, content, tokens, t) ==
    LET c2 == PushMessage(conv, role, content, tokens, t)
    IN  IF OverMessageLimit(c2) THEN trimMessages(c2) ELSE c2

addMessageOrCreate(cs, id, role, content, tokens, t) ==
    LET i == ConvFind(cs, id)
    IN  IF i = 0
        THEN Append(cs, [id |-> id,
                         messages |-> << [role |-> role, content |-> content, timestamp |-> t,
                                          tokens |-> EstimatedTokens(content, tokens)] >>,
                         createdAt |-> t, lastActive |-> t, systemPrompt |-> None,
                         totalTokens |-> EstimatedTokens(content, tokens)])
        ELSE [cs EXCEPT ![i] = AddToConversation(cs[i], role, content, tokens, t)]

addMessage(cs, id, role, content, tokens, t) ==
    LET i == ConvFind(cs, id)
    IN  IF i = 0 THEN cs
        ELSE [cs EXCEPT ![i] = AddToConversation(cs[i], role, content, tokens, t)]

\* getConversation: a live conversation's lastActive becomes Date.now()
getConversation(cs, id, t) ==
    LET i == ConvFind(cs, id)
    IN  IF i = 0 THEN cs ELSE [cs EXCEPT ![i].lastActive = t]

FormattedMessagesOrEmpty(cs, id) ==
    LET i == ConvFind(cs, id)
    IN  IF i = 0 THEN Some(<< >>)
        ELSE Some([n \in 1..Len(cs[i].messages) |->
                    [role |-> cs[i].messages[n].role,
                     content |-> cs[i].messages[n].content]])

\* getFormattedMessages: the messages as {role, content}, or null
FormattedMessages(cs, id) ==
    LET i == ConvFind(cs, id)
    IN  IF i = 0 THEN None
        ELSE Some([n \in 1..Len(cs[i].messages) |->
                    [role |-> cs[i].messages[n].role,
                     content |-> cs[i].messages[n].content]])

deleteConversationAndOlder(cs, id) ==
    LET i == ConvFind(cs, id)
    IN  IF i = 0 THEN cs ELSE SubSeq(cs, i + 1, Len(cs))

deleteConversation(cs, id) ==
    LET Other(c) == c.id # id
    IN  SelectSeq(cs, Other)

IdleSweepAtTTL(cs, t) ==
    LET Fresh(c) == ~ (t - c.lastActive >= CONVERSATION_TTL)
    IN  SelectSeq(cs, Fresh)

\* the interval callback of startCleanup
IdleSweep(cs, t) ==
    LET Fresh(c) == ~ (t - c.lastActive > CONVERSATION_TTL)
    IN  SelectSeq(cs, Fresh)

\* ---- the store's operations as actions ----
CreateConversation(systemPrompt) ==
    /\ Budget
    /\ nextId <= MaxCreated
    /\ conversations' = createConversation(conversations, nextId, systemPrompt, now)
    /\ nextId' = nextId + 1
    /\ ret' = [op |-> "createConversation", value |-> nextId]
    /\ UNCHANGED <<now, cacheVars, usage, gwVars, routerVars>>

AddMessage(id, role, content, tokens) ==
    LET i == ConvFind(conversations, id)
    IN  /\ Budget
        /\ conversations' = addMessage(conversations, id, role, content, tokens, now)
        /\ ret' = [op |-> "addMessage", id |-> id, value |-> (i # 0),
                   tokenTrim |-> (i # 0 /\ OverTokenLimit(conversations[i], content, tokens)),
                   countTrim |-> (i # 0 /\ OverMessageLimit(
                        PushMessage(conversations[i], role, content, tokens, now)))]
        /\ UNCHANGED <<now, nextId, cacheVars, usage, gwVars, routerVars>>

GetFormattedMessages(id) ==
    /\ Budget
    /\ conversations' = getConversation(conversations, id, now)
    /\ ret' = [op |-> "getFormattedMessages", id |-> id,
               value |-> FormattedMessages(conversations, id)]
    /\ UNCHANGED <<now, nextId, cacheVars, usage, gwVars, routerVars>>

DeleteConversation(id) ==
    /\ Budget
    /\ conversations' = deleteConversation(conversations, id)
    /\ ret' = [op |-> "deleteConversation", id |-> id,
               value |-> (ConvFind(conversations, id) # 0)]
    /\ UNCHANGED <<now, nextId, cacheVars, usage, gwVars, routerVars>>

ClearAllConversations ==
    /\ Budget
    /\ conversations' = << >>
    /\ ret' = [op |-> "clearAllConversations"]
    /\ UNCHANGED <<now, nextId, cacheVars, usage, gwVars, routerVars>>

ConversationSweep ==
    /\ Budget
    /\ conversations' = IdleSweep(conversations, now)
    /\ ret' = [op |-> "conversationSweep"]
    /\ UNCHANGED <<now, nextId, cacheVars, usage, gwVars, routerVars>>

(***************************************************************************)
(* SpecConv: the conversation store alone, from its construction or from a *)
(* store that holds one long conversation: a system prompt and 49 messages *)
(* of 100 tokens each, added in turn by the user and the assistant, or 50  *)
(* short messages without a system prompt.                                 *)
(***************************************************************************)
Hello == <<"h", "e", "l", "l", "o">>

Persona == <<"b", "e", " ", "a", " ", "V", "C">>

LongConversation ==
    [id |-> 0,
     messages |-> [n \in 1..MAX_MESSAGES_PER_CONVERSATION |->
                    IF n = 1
                    THEN [role |-> "system", content |-> Persona,
                          timestamp |-> StartTime, tokens |-> estimateTokens(Persona)]
                    ELSE [role |-> IF n % 2 = 0 THEN "user" ELSE "assistant",
                          content |-> Hello, timestamp |-> StartTime, tokens |-> 100]],
     createdAt |-> StartTime,
     lastActive |-> StartTime,
     systemPrompt |-> Some(Persona),
     totalTokens |-> estimateTokens(Persona) + 100 * (MAX_MESSAGES_PER_CONVERSATION - 1)]

\* a conversation created without a system prompt a minute ago, after 50
\* user/assistant pairs were added to it: the last 50 messages remain, the
\* n-th of them added MAX_MESSAGES_PER_CONVERSATION - n seconds ago
PlainConversation ==
    [id |-> 0,
     messages |-> [n \in 1..MAX_MESSAGES_PER_CONVERSATION |->
                    [role |-> IF n % 2 = 1 THEN "user" ELSE "assistant",
                     content |-> Hello,
                     timestamp |-> StartTime - (MAX_MESSAGES_PER_CONVERSATION - n),
                     tokens |-> estimateTokens(Hello)]],
     createdAt |-> StartTime - 60,
     lastActive |-> StartTime,
     systemPrompt |-> None,
     totalTokens |-> estimateTokens(Hello) * MAX_MESSAGES_PER_CONVERSATION]

\* the ids a caller may pass: the long conversation's, those handed out, and
\* one that was never handed out
ConvIds == 0..(MaxCreated + 1)

\* (role, content, tokens) of the addMessage calls
MessageInputs ==
    { <<"user", Hello, None>>,
      <<"assistant", << >>, Some(0)>>,
      <<"assistant", Hello, Some(3000)>>,
      <<"user", Hello, Some(9000)>> }

ConvTicks == {1, CONVERSATION_TTL + 1}

InitConv ==
    /\ now = StartTime
    /\ steps = 0
    /\ limit = MaxConvSteps
    /\ ret = [op |-> "init"]
    /\ cache = << >>
    /\ totalHits = 0
    /\ totalRequests = 0
    /\ usage = << >>
    /\ conversations \in {<< >>, <<LongConversation>>, <<PlainConversation>>}
    /\ nextId = 1
    /\ GatewayIdle
    /\ RouterIdle

NextConv ==
    \/ \E p \in {None, Some(<< >>), Some(Persona)} : CreateConversation(p)
    \/ \E id \in ConvIds, m \in MessageInputs : AddMessage(id, m[1], m[2], m[3])
    \/ \E id \in ConvIds : GetFormattedMessages(id)
    \/ \E id \in ConvIds : DeleteConversation(id)
    \/ ClearAllConversations
    \/ ConversationSweep
    \/ \E d \in ConvTicks : Tick(d)

SpecConv == InitConv /\ [][NextConv]_vars

RECURSIVE TokensFrom(_, _)
TokensFrom(ms, n) == IF n > Len(ms) THEN 0 ELSE ms[n].tokens + TokensFrom(ms, n + 1)

\* C1: after any sequence of createConversation, addMessage and the trimming
\* those calls trigger, every live conversation's totalTokens equals the sum
\* of the tokens fields of the messages it currently holds.
C1_TotalTokensIsSum ==
    \A i \in 1..Len(conversations) :
        conversations[i].totalTokens = TokensFrom(conversations[i].messages, 1)

\* a conversation that an addMessage trimmed by tokens, after an earlier one
\* had trimmed it by message count
C1_Witness ==
    /\ ret.op = "addMessage"
    /\ ret.tokenTrim
    /\ \E i \in 1..Len(conversations) :
        /\ conversations[i].id = ret.id
        /\ Len(conversations[i].messages) < MAX_MESSAGES_PER_CONVERSATION - 5
        /\ conversations[i].messages[1].role = "system"
        /\ conversations[i].totalTokens > 0

\* C13: neither trimming removes a system-role message: a conversation
\* created with a system prompt keeps that message, as its first message,
\* through any sequence of addMessage calls while it is live (and it is the
\* only system message: addMessage adds user and assistant messages).
C13_SystemMessageKept ==
    \A i \in 1..Len(conversations) :
        LET conv == conversations[i]
            seeded == conv.systemPrompt # None /\ conv.systemPrompt[1] # << >>
        IN  /\ seeded =>
                /\ conv.messages # << >>
                /\ conv.messages[1].role = "system"
                /\ conv.messages[1].content = conv.systemPrompt[1]
                /\ conv.messages[1].timestamp = conv.createdAt
            /\ \A n \in 1..Len(conv.messages) :
                conv.messages[n].role = "system" => (seeded /\ n = 1)

\* the message count of a conversation with a system prompt was just cut
\* back to the ceiling, and the system message is still its first
C13_Witness ==
    /\ ret.op = "addMessage"
    /\ ret.countTrim
    /\ \E i \in 1..Len(conversations) :
        /\ conversations[i].id = ret.id
        /\ conversations[i].systemPrompt = Some(Persona)
        /\ Len(conversations[i].messages) = MAX_MESSAGES_PER_CONVERSATION
        /\ conversations[i].messages[1].content = Persona
        /\ conversations[i].messages[2].timestamp = StartTime

\* C14: after every addMessage call returns, whatever the sizes of the
\* messages, the conversation's totalTokens is at most
\* MAX_TOKENS_PER_CONVERSATION.
C14_TokensUnderCeiling ==
    (ret.op = "addMessage" /\ ret.value) =>
        \A i \in 1..Len(conversations) :
            conversations[i].id = ret.id =>
                conversations[i].totalTokens <= MAX_TOKENS_PER_CONVERSATION

NonSystemOf(ms) == SelectSeq(ms, IsNotSystem)

SystemOf(ms) == SelectSeq(ms, IsSystem)

ConvOf(cs, id) == cs[CHOOSE i \in 1..Len(cs) : cs[i].id = id]

\* C15: after every addMessage call returns the conversation holds at most
\* MAX_MESSAGES_PER_CONVERSATION messages, the system message included; a
\* call that takes it over the ceiling leaves the system messages, the most
\* recent earlier messages and the new one, so that the oldest are gone (as
\* when pairs are added to a conversation without a system prompt that is at
\* the ceiling).
C15_MessagesUnderCeiling ==
    /\ [](\A i \in 1..Len(conversations) :
            Len(conversations[i].messages) <= MAX_MESSAGES_PER_CONVERSATION)
    /\ [][(ret'.op = "addMessage" /\ ret'.value /\ ret'.countTrim) =>
            LET before == ConvOf(conversations, ret'.id).messages
                after == ConvOf(conversations', ret'.id).messages
                dropped == Len(before) + 1 - 50
            IN  /\ Len(after) = 50
                /\ after[50].timestamp = now
                /\ SystemOf(after) = SystemOf(before)
                /\ SubSeq(after, 1, 49) =
                        SystemOf(before) \o
                        SubSeq(NonSystemOf(before), dropped + 1,
                               Len(NonSystemOf(before)))]_vars

\* the 51st pair was added, a second after the 50th, to the conversation
\* without a system prompt: it holds 50 messages, the new pair last, and the
\* pair that was the oldest is gone
C15_Witness ==
    /\ now = StartTime + 1
    /\ ret.op = "addMessage"
    /\ ret.countTrim
    /\ \E i \in 1..Len(conversations) :
        /\ conversations[i].id = ret.id
        /\ conversations[i].systemPrompt = None
        /\ Len(conversations[i].messages) = 50
        /\ conversations[i].messages[1].timestamp = StartTime - 47
        /\ conversations[i].messages[49].timestamp = now
        /\ conversations[i].messages[49].role = "user"
        /\ conversations[i].messages[50].timestamp = now
        /\ conversations[i].messages[50].role = "assistant"

(***************************************************************************)
(* SpecConvFull: the conversation store from a state in which it holds     *)
(* MAX_CONVERSATIONS conversations, created earlier and used since: all    *)
(* last active at the clock value the behaviour starts at (fill = "flat"), *)
(* or over the last seconds, the least recently active of them not the     *)
(* first created (fill = "mixed").                                         *)
(***************************************************************************)
\* the id of the n-th conversation of the full store
StoredId(n) == n - MAX_CONVERSATIONS

FullStore(fill) ==
    [n \in 1..MAX_CONVERSATIONS |->
        LET seen == IF fill = "flat" THEN StartTime ELSE (StartTime - 7) + ((3 * n) % 7)
        IN  [id |-> StoredId(n), messages |-> << >>, createdAt |-> StartTime - 60,
             lastActive |-> seen, systemPrompt |-> None, totalTokens |-> 0]]

FullConvIds == {StoredId(1), StoredId(7), 1}

InitConvFull ==
    /\ now = StartTime
    /\ steps = 0
    /\ limit = MaxFullConvSteps
    /\ ret = [op |-> "init"]
    /\ cache = << >>
    /\ totalHits = 0
    /\ totalRequests = 0
    /\ usage = << >>
    /\ conversations \in {FullStore("flat"), FullStore("mixed")}
    /\ nextId = 1
    /\ GatewayIdle
    /\ RouterIdle

NextConvFull ==
    \/ \E p \in {None, Some(Persona)} : CreateConversation(p)
    \/ \E id \in FullConvIds : AddMessage(id, "user", Hello, None)
    \/ \E id \in FullConvIds : GetFormattedMessages(id)
    \/ \E id \in FullConvIds : DeleteConversation(id)
    \/ Tick(1)

SpecConvFull == InitConvFull /\ [][NextConvFull]_vars

IdsOf(cs) == {cs[i].id : i \in 1..Len(cs)}

\* C16: after every createConversation call returns, at most
\* MAX_CONVERSATIONS conversations are live and the one just created is one
\* of them; every conversation evicted to make room was last active no later
\* than every conversation that survives.
C16_CreateKeepsCap ==
    [][ret'.op = "createConversation" =>
        /\ Len(conversations') <= 100
        /\ ret'.value \in IdsOf(conversations')
        /\ ret'.value \notin IdsOf(conversations)
        /\ \A e \in 1..Len(conversations) :
                conversations[e].id \notin IdsOf(conversations') =>
                    \A k \in 1..Len(conversations') :
                        conversations[e].lastActive <= conversations'[k].lastActive
        /\ Len(conversations') = IF Len(conversations) < 100
                                 THEN Len(conversations) + 1 ELSE 100]_vars

\* two conversations were created in a full store whose least recently
\* active conversations were not the first created: those two made room
C16_Witness ==
    /\ ret.op = "createConversation"
    /\ ret.value = 2
    /\ Len(conversations) = 100
    /\ {1, 2} \subseteq IdsOf(conversations)
    /\ StoredId(1) \in IdsOf(conversations)
    /\ StoredId(7) \notin IdsOf(conversations)
    /\ StoredId(14) \notin IdsOf(conversations)

\* s is what remains of t after dropping some of its first elements
IsSuffix(s, t) ==
    /\ Len(s) <= Len(t)
    /\ s = SubSeq(t, Len(t) - Len(s) + 1, Len(t))

\* C17: in every conversation the non-system messages are a contiguous
\* most-recent suffix of the accepted addMessage calls, in arrival order.
\* Step by step: an accepted addMessage leaves a suffix of the earlier
\* non-system messages followed by the message it was called with, which is
\* last; no other operation changes the messages of a conversation it keeps,
\* and a new conversation starts without non-system messages.
C17_SuffixOfAccepted ==
    [][steps' # steps =>
        \A j \in 1..Len(conversations') :
            LET after == NonSystemOf(conversations'[j].messages)
                i == ConvFind(conversations, conversations'[j].id)
            IN  IF i = 0 THEN after = << >>
                ELSE LET before == NonSystemOf(conversations[i].messages)
                     IN  IF ret'.op = "addMessage" /\ ret'.value
                            /\ ret'.id = conversations[i].id
                         THEN \E m \in MessageInputs :
                                LET new == [role |-> m[1], content |-> m[2],
                                            timestamp |-> now,
                                            tokens |-> IF m[3] # None /\ m[3][1] # 0
                                                       THEN m[3][1]
                                                       ELSE (Len(m[2]) + 3) \div 4]
                                IN  /\ after # << >>
                                    /\ after[Len(after)] = new
                                    /\ IsSuffix(after, Append(before, new))
                         ELSE after = before]_vars

\* a token trim dropped all but the most recent earlier message of a long
\* conversation: that message, the large one before this call and the new
\* one remain, in that order
C17_Witness ==
    /\ ret.op = "addMessage"
    /\ ret.value
    /\ ret.tokenTrim
    /\ LET kept == NonSystemOf(ConvOf(conversations, ret.id).messages)
       IN  /\ Len(kept) = 3
           /\ kept[1].tokens = 100
           /\ kept[2].tokens = 9000
           /\ kept[3].timestamp = now
           /\ kept[3].timestamp > kept[2].timestamp

\* C20: addMessage on an id that is not live returns false and
\* getFormattedMessages on such an id returns null; neither creates a
\* conversation and neither changes a stored conversation.
C20_UnknownIdNoEffect ==
    [][(/\ steps' # steps
        /\ ret'.op \in {"addMessage", "getFormattedMessages"}
        /\ \A i \in 1..Len(conversations) : conversations[i].id # ret'.id) =>
            /\ conversations' = conversations
            /\ nextId' = nextId
            /\ ret'.op = "addMessage" => ret'.value = FALSE
            /\ ret'.op = "getFormattedMessages" => ret'.value = << >>]_vars

\* addMessage was called with the id of a conversation deleted earlier while
\* another conversation is stored
C20_Witness ==
    /\ ret.op = "addMessage"
    /\ ret.value = FALSE
    /\ ret.id = 1
    /\ nextId >= 2
    /\ conversations # << >>
    /\ \A i \in 1..Len(conversations) : conversations[i].id # 1

\* C21: deleteConversation(id) returns true exactly when id was live and
\* false otherwise; after it id is not live, and an id that is not live never
\* becomes live again (a created conversation gets an id never used before),
\* so addMessage on it returns false and getFormattedMessages null from then
\* on; every other conversation is left exactly as it was.
C21_DeleteIsFinal ==
    [][steps' # steps =>
        LET live == {conversations[i].id : i \in 1..Len(conversations)}
            liveAfter == {conversations'[j].id : j \in 1..Len(conversations')}
        IN  /\ ret'.op = "deleteConversation" =>
                /\ ret'.value = (ret'.id \in live)
                /\ ret'.id \notin liveAfter
                /\ liveAfter = live \ {ret'.id}
                /\ \A i \in 1..Len(conversations) :
                        conversations[i].id # ret'.id =>
                            \E j \in 1..Len(conversations') :
                                /\ conversations'[j] = conversations[i]
                                /\ j = i - Cardinality({k \in 1..i : conversations[k].id = ret'.id})
            /\ \A id \in liveAfter \ live : id = nextId /\ nextId' = nextId + 1
            /\ \A id \in live : id < nextId
            /\ (ret'.op = "addMessage" /\ ret'.id \notin live) =>
                    ret'.value = FALSE /\ ret'.id \notin liveAfter
            /\ (ret'.op = "getFormattedMessages" /\ ret'.id \notin live) =>
                    ret'.value = << >> /\ ret'.id \notin liveAfter]_vars

\* of three conversations the second was deleted: the other two are stored
C21_Witness ==
    /\ ret.op = "deleteConversation"
    /\ ret.id = 1
    /\ ret.value = TRUE
    /\ nextId = 3
    /\ Len(conversations) = 2
    /\ conversations[1].id = 0
    /\ conversations[2].id = 2

(***************************************************************************)
(* SpecTrim: one conversation, just created with or without a system       *)
(* prompt, that receives messages of 1600 and 3200 tokens.                 *)
(***************************************************************************)
TrimTokens == {1600, 3200}

InitTrim ==
    /\ now = StartTime
    /\ steps = 0
    /\ limit = MaxTrimSteps
    /\ ret = [op |-> "init"]
    /\ cache = << >>
    /\ totalHits = 0
    /\ totalRequests = 0
    /\ usage = << >>
    /\ \E p \in {None, Some(Persona)} :
            conversations = createConversation(<< >>, 1, p, StartTime)
    /\ nextId = 2
    /\ GatewayIdle
    /\ RouterIdle

NextTrim ==
    \/ \E role \in {"user", "assistant"}, n \in TrimTokens : AddMessage(1, role, Hello, Some(n))
    \/ Tick(1)

SpecTrim == InitTrim /\ [][NextTrim]_vars

\* what an accepted addMessage that trims by tokens only did to its
\* conversation: it dropped the first d non-system messages, d being the
\* first count at which Stop(total left, messages left) holds, and none when
\* the total and the new message's tokens fit under the ceiling; then it
\* appended the new message
TokenTrimDrops(Stop(_, _)) ==
    LET before == ConvOf(conversations, ret'.id)
        after == ConvOf(conversations', ret'.id)
        nonB == NonSystemOf(before.messages)
        nonA == NonSystemOf(after.messages)
        new == nonA[Len(nonA)]
        d == Len(nonB) + 1 - Len(nonA)
        Left(k) == before.totalTokens - SumMessageTokens(SubSeq(nonB, 1, k))
    IN  /\ d \in 0..Len(nonB)
        /\ SubSeq(nonA, 1, Len(nonA) - 1) = SubSeq(nonB, d + 1, Len(nonB))
        /\ SystemOf(after.messages) = SystemOf(before.messages)
        /\ new.timestamp = now
        /\ after.totalTokens = Left(d) + new.tokens
        /\ IF before.totalTokens + new.tokens > MAX_TOKENS_PER_CONVERSATION
           THEN /\ Stop(Left(d), Len(nonB) - d)
                /\ \A k \in 0..(d - 1) : ~ Stop(Left(k), Len(nonB) - k)
           ELSE d = 0
        /\ Len(nonB) <= 2 => d = 0
        /\ ret'.tokenTrim = (before.totalTokens + new.tokens > MAX_TOKENS_PER_CONVERSATION)

\* C30: token trimming runs only when the conversation's total plus the new
\* message's tokens would exceed the ceiling; it then drops the oldest
\* non-system message, before the new one is appended, until usage is under
\* 80% of the ceiling or only 2 non-system messages remain; it removes
\* nothing from a conversation with 2 or fewer non-system messages.
C30_TrimUntilUnderEighty ==
    [][(steps' # steps /\ ret'.op = "addMessage" /\ ret'.value /\ ~ ret'.countTrim) =>
        LET Stop(total, left) == 100 * total < 80 * MAX_TOKENS_PER_CONVERSATION \/ left <= 2
        IN  TokenTrimDrops(Stop)]_vars

\* C30 as the code has it: the dropping also stops when usage is exactly 80%
\* of the ceiling.
C30_TrimUntilEightyOrLess ==
    [][(steps' # steps /\ ret'.op = "addMessage" /\ ret'.value /\ ~ ret'.countTrim) =>
        LET Stop(total, left) == 100 * total <= 80 * MAX_TOKENS_PER_CONVERSATION \/ left <= 2
        IN  TokenTrimDrops(Stop)]_vars

\* a token trim dropped the oldest of four messages and stopped with three
\* left, at 6400 tokens, before the fifth was appended
C30_Witness ==
    /\ ret.op = "addMessage"
    /\ ret.tokenTrim
    /\ steps = 5
    /\ Len(conversations[1].messages) = 4
    /\ conversations[1].systemPrompt = << >>
    /\ conversations[1].messages[1].timestamp < now
    /\ conversations[1].messages[4].timestamp = now
    /\ conversations[1].totalTokens = 6400 + conversations[1].messages[4].tokens

(***************************************************************************)
(* SpecSweep: the store holding MAX_CONVERSATIONS conversations last       *)
(* active over seven seconds, or two conversations, while the clock passes *)
(* to where some of them have been idle for more than CONVERSATION_TTL,    *)
(* some for exactly that long and some for less.                           *)
(***************************************************************************)
SmallStore ==
    [n \in 1..2 |->
        [id |-> StoredId(n), messages |-> << >>, createdAt |-> StartTime - 60,
         lastActive |-> StartTime - 4 * (n - 1), systemPrompt |-> None, totalTokens |-> 0]]

SweepTicks == {1, CONVERSATION_TTL - 4}

InitSweep ==
    /\ now = StartTime
    /\ steps = 0
    /\ limit = MaxSweepSteps
    /\ ret = [op |-> "init"]
    /\ cache = << >>
    /\ totalHits = 0
    /\ totalRequests = 0
    /\ usage = << >>
    /\ conversations \in {FullStore("mixed"), SmallStore}
    /\ nextId = 1
    /\ GatewayIdle
    /\ RouterIdle

NextSweep ==
    \/ \E p \in {None, Some(Persona)} : CreateConversation(p)
    \/ \E id \in {StoredId(1), StoredId(2)} : GetFormattedMessages(id)
    \/ ConversationSweep
    \/ \E d \in SweepTicks : Tick(d)

SpecSweep == InitSweep /\ [][NextSweep]_vars

RecordsOf(cs) == {cs[i] : i \in 1..Len(cs)}

\* C31: each run of the idle sweep removes exactly the conversations whose
\* lastActive is more than 24 hours before the sweep time and leaves every
\* other conversation as it was, whatever the number of live conversations;
\* a createConversation removes only what the capacity requires (nothing
\* below MAX_CONVERSATIONS, one conversation at MAX_CONVERSATIONS), however
\* long the others have been idle, and a sweep leaves a full store full when
\* nothing in it is idle for more than 24 hours.
C31_SweepRemovesIdleOnly ==
    [][/\ (steps' # steps /\ ret'.op = "conversationSweep") =>
            /\ RecordsOf(conversations') =
                    {c \in RecordsOf(conversations) : now - c.lastActive <= 24 * 60 * 60}
            /\ Len(conversations') = Cardinality(IdsOf(conversations'))
       /\ (steps' # steps /\ ret'.op = "createConversation") =>
            /\ Len(conversations) < 100 =>
                    RecordsOf(conversations) \subseteq RecordsOf(conversations')
            /\ Len(conversations) = 100 =>
                    /\ Len(conversations') = 100
                    /\ Cardinality(RecordsOf(conversations) \ RecordsOf(conversations')) = 1]_vars

\* a sweep of the full store left the conversations idle for 24 hours or
\* less, one of them idle for exactly 24 hours
C31_Witness ==
    /\ ret.op = "conversationSweep"
    /\ Len(conversations) > 2
    /\ Len(conversations) < MAX_CONVERSATIONS
    /\ \E i \in 1..Len(conversations) : now - conversations[i].lastActive = CONVERSATION_TTL

(***************************************************************************)
(* OpenAIClient: the gateway.  Durations here are milliseconds.            *)
(*                                                                         *)
(* A call is suspended at three awaits: the sleep of the shared            *)
(* rateLimitDelay (pc = "sleepRL"), the provider request (pc = "request")  *)
(* and the backoff sleep after a transient error (pc = "sleepRetry").      *)
(* What runs between two awaits is one step.                               *)
(***************************************************************************)
\* retryOptions: the defaults, which every caller of the repository takes,
\* and a slower base delay that reaches maxDelay within the attempt budget
DefaultRetry == [maxRetries |-> 3, baseDelay |-> 1000, maxDelay |-> 10000]

SlowRetry == [maxRetries |-> 3, baseDelay |-> 3000, maxDelay |-> 10000]

RetryOptions == {DefaultRetry, SlowRetry}

\* options.maxInputTokens, as defaulted
MaxInputTokens == 100000

\* Math.ceil(text.length / 3.5), from the length of the text
estimateTokensSync(len) == (2 * len + 6) \div 7

\* MODEL_COSTS: dollars per 1M tokens, here money units per 10 tokens
InputPrice(model) ==
    CASE model = "gpt-4o-mini" -> 12
      [] model = "gpt-4" -> 2400
      [] model = "gpt-4-turbo" -> 800
      [] model = "gpt-4o" -> 200
      [] OTHER -> 12

OutputPrice(model) ==
    CASE model = "gpt-4o-mini" -> 48
      [] model = "gpt-4" -> 4800
      [] model = "gpt-4-turbo" -> 2400
      [] model = "gpt-4o" -> 800
      [] OTHER -> 48

costTenthsInputOnly(model, inputTokens, outputTokens) ==
    inputTokens * InputPrice(model)

\* calculateCost, exactly, in tenths of a money unit (1/80,000,000 dollar)
costTenths(model, inputTokens, outputTokens) ==
    inputTokens * InputPrice(model) + outputTokens * OutputPrice(model)

\* calculateCost in money units: exact for the usage reports of the
\* specifications below, whose token counts are multiples of 10
calculateCost(model, inputTokens, outputTokens) ==
    costTenths(model, inputTokens, outputTokens) \div 10

RECURSIVE Pow2(_)
Pow2(n) == IF n = 0 THEN 1 ELSE 2 * Pow2(n - 1)

Min(a, b) == IF a < b THEN a ELSE b

\* an error is the status it carries, if any, and the request that raised it
isRateLimitError(e) == e.status # None /\ e.status[1] = 429

isRetriableErrorLoose(e) == e.status # None /\ e.status[1] >= 400

isRetriableError(e) ==
    e.status # None /\ (e.status[1] >= 500 \/ e.status[1] = 408 \/ e.status[1] = 429)

backoffDelayUncapped(opts, attempt) == opts.baseDelay * Pow2(attempt)

\* Math.min(baseDelay * Math.pow(2, attempt), maxDelay)
backoffDelay(opts, attempt) == Min(opts.baseDelay * Pow2(attempt), opts.maxDelay)

IdleCall ==
    [pc |-> "idle", len |-> 0, opts |-> DefaultRetry, attempt |-> 0,
     lastError |-> None, sleepFor |-> 0, slept |-> 0, extra |-> 0, reqs |-> 0,
     result |-> None]

InputTooLargeAtCeiling(len) == estimateTokensSync(len) >= MaxInputTokens

\* estimatedInputTokens > maxInputTokens, for a text of len characters
InputTooLarge(len) == estimateTokensSync(len) > MaxInputTokens

\* throw lastError || new Error("Unknown error occurred")
Throw(call) ==
    [call EXCEPT !.pc = "thrown",
                 !.result = IF call.lastError # None THEN call.lastError
                            ELSE Some([status |-> None, at |-> 0])]

\* client.chat.completions.create is called: the request is on its way.
\* slept is what the call has slept since its last request (or its start),
\* extra the part of it that was the shared delay found after a backoff.
IssueRequest(call) ==
    [call EXCEPT !.pc = "request", !.reqs = @ + 1, !.sleepFor = 0,
                 !.slept = 0, !.extra = 0]

LoopTopNoBudget(call, rl, afterBackoff) ==
    IF rl > 0
    THEN [call EXCEPT !.pc = "sleepRL", !.sleepFor = rl, !.slept = @ + rl,
                      !.extra = IF afterBackoff THEN rl ELSE 0]
    ELSE IssueRequest(call)

\* the head of the for loop and of its try block, with rl the shared delay
LoopTop(call, rl, afterBackoff) ==
    IF call.attempt > call.opts.maxRetries THEN Throw(call)
    ELSE IF rl > 0
         THEN [call EXCEPT !.pc = "sleepRL", !.sleepFor = rl, !.slept = @ + rl,
                           !.extra = IF afterBackoff THEN rl ELSE 0]
         ELSE IssueRequest(call)

\* the catch block, for the error e of the request of this attempt
AfterError(call, e) ==
    LET c1 == [call EXCEPT !.lastError = Some(e)]
        delay == backoffDelay(call.opts, call.attempt)
    IN  IF isRateLimitError(e)
        THEN LoopTop([c1 EXCEPT !.attempt = @ + 1], delay, FALSE)
        ELSE IF isRetriableError(e) /\ call.attempt < call.opts.maxRetries
             THEN [c1 EXCEPT !.pc = "sleepRetry", !.sleepFor = delay, !.slept = @ + delay]
             ELSE Throw(c1)

RateLimitAfterError(call, e, rl) ==
    IF isRateLimitError(e) THEN backoffDelay(call.opts, call.attempt) ELSE rl

Sent(c) == calls'[c].reqs > calls[c].reqs

gwFrame == UNCHANGED <<now, steps, limit, ret, cacheVars, usage, convVars, routerVars>>

\* ---- the steps of a call ----
\* createChatCompletion is entered with a text of len characters
StartCall(c, opts, len) ==
    /\ calls[c].pc = "idle"
    /\ calls' = [calls EXCEPT ![c] =
            IF InputTooLarge(len)
            THEN [IdleCall EXCEPT !.pc = "thrown", !.len = len, !.opts = opts,
                                  !.result = Some([status |-> None, at |-> 0])]
            ELSE LoopTop([IdleCall EXCEPT !.len = len, !.opts = opts],
                         rateLimitDelay, FALSE)]
    /\ owed' = IF Sent(c) THEN 0 ELSE owed
    /\ UNCHANGED rateLimitDelay
    /\ gwFrame

\* the sleep of the shared delay ends: the field is reset, the request sent
WakeRateLimit(c) ==
    /\ calls[c].pc = "sleepRL"
    /\ rateLimitDelay' = 0
    /\ calls' = [calls EXCEPT ![c] = IssueRequest(calls[c])]
    /\ owed' = 0
    /\ gwFrame

\* the provider answers with a completion
Succeed(c, usageReport) ==
    /\ calls[c].pc = "request"
    /\ calls' = [calls EXCEPT ![c].pc = "returned",
                              ![c].result = Some(
            [content |-> "ok",
             tokensUsed |-> usageReport.total_tokens,
             cost |-> calculateCost("gpt-4o-mini", usageReport.prompt_tokens,
                                    usageReport.completion_tokens)])]
    /\ UNCHANGED <<rateLimitDelay, owed>>
    /\ gwFrame

\* the provider request fails with an error of this status (None: no status)
Fail(c, status) ==
    LET e == [status |-> status, at |-> calls[c].reqs]
    IN  /\ calls[c].pc = "request"
        /\ rateLimitDelay' = RateLimitAfterError(calls[c], e, rateLimitDelay)
        /\ calls' = [calls EXCEPT ![c] = AfterError(calls[c], e)]
        /\ owed' = IF Sent(c) THEN 0
                   ELSE IF isRateLimitError(e) THEN rateLimitDelay' ELSE owed
        /\ gwFrame

\* the backoff sleep ends: continue, into the next iteration
WakeRetry(c) ==
    /\ calls[c].pc = "sleepRetry"
    /\ calls' = [calls EXCEPT ![c] =
            LoopTop([calls[c] EXCEPT !.attempt = @ + 1], rateLimitDelay, TRUE)]
    /\ owed' = IF Sent(c) THEN 0 ELSE owed
    /\ UNCHANGED rateLimitDelay
    /\ gwFrame

(***************************************************************************)
(* SpecGateway: MaxCalls calls on the singleton, interleaved at the awaits.*)
(***************************************************************************)
CallIds == 1..MaxCalls

\* the length of JSON.stringify(messages): the largest admitted, and one more
InputLengths == {350000, 350001}

ErrorStatuses == {Some(429), Some(500), Some(408), Some(400), None}

UsageReports == {[prompt_tokens |-> 100, completion_tokens |-> 50, total_tokens |-> 150]}

InitGateway ==
    /\ now = StartTime
    /\ steps = 0
    /\ limit = 0
    /\ ret = [op |-> "init"]
    /\ cache = << >>
    /\ totalHits = 0
    /\ totalRequests = 0
    /\ usage = << >>
    /\ conversations = << >>
    /\ nextId = 1
    /\ rateLimitDelay = 0
    /\ calls = [c \in CallIds |-> IdleCall]
    /\ owed = 0
    /\ RouterIdle

CallStep(c) ==
    \/ WakeRateLimit(c)
    \/ \E u \in UsageReports : Succeed(c, u)
    \/ \E st \in ErrorStatuses : Fail(c, st)
    \/ WakeRetry(c)

NextGateway ==
    \/ \E c \in CallIds, o \in RetryOptions, len \in InputLengths : StartCall(c, o, len)
    \/ \E c \in CallIds : CallStep(c)

SpecGateway == InitGateway /\ [][NextGateway]_vars

\* a sleep ends and the provider answers: each call that is under way moves on
SpecGatewayFair == SpecGateway /\ \A c \in CallIds : WF_vars(CallStep(c))

Active(c) == calls[c].pc \in {"sleepRL", "request", "sleepRetry"}

Ended(c) == calls[c].pc \in {"returned", "thrown"}

\* how far a call has come: three awaits per attempt, in this order
AwaitRank(pc) ==
    CASE pc = "idle" -> 0
      [] pc = "sleepRL" -> 1
      [] pc = "request" -> 2
      [] pc = "sleepRetry" -> 3
      [] OTHER -> 0

Progress(call) ==
    IF call.pc \in {"returned", "thrown"} THEN 4 * (call.opts.maxRetries + 2)
    ELSE 4 * call.attempt + AwaitRank(call.pc)

\* a status the claims call retriable: rate limit, request timeout, 5xx
RetriableStatus(st) == st # None /\ (st[1] = 429 \/ st[1] = 408 \/ st[1] >= 500)

\* C7: every createChatCompletion call terminates, returning a result or
\* throwing the last provider error, after at most maxRetries + 1 provider
\* requests, whatever failures the provider produces; no request follows a
\* success, and a failure is surfaced only when the error is non-retriable or
\* the attempt budget is exhausted.  Termination is stated by a variant: a
\* call that is under way can always take its next step (its sleep ends, the
\* provider answers), every step of a call moves it strictly forward, and
\* there is a last position.
C7_CallTerminates ==
    /\ [](\A c \in CallIds :
            /\ calls[c].reqs <= calls[c].opts.maxRetries + 1
            /\ Progress(calls[c]) <= 4 * (calls[c].opts.maxRetries + 2)
            /\ Active(c) => ENABLED CallStep(c)
            /\ calls[c].pc = "returned" => calls[c].result # None
            /\ (calls[c].pc = "thrown" /\ calls[c].reqs >= 1) =>
                    /\ calls[c].result = calls[c].lastError
                    /\ calls[c].result[1].at = calls[c].reqs
                    /\ \/ ~ RetriableStatus(calls[c].result[1].status)
                       \/ calls[c].reqs = calls[c].opts.maxRetries + 1)
    /\ [][\A c \in CallIds :
            /\ calls'[c] # calls[c] => Progress(calls'[c]) > Progress(calls[c])
            /\ Ended(c) => calls'[c] = calls[c]]_vars

\* one call has used its whole attempt budget and thrown, another returned
C7_Witness ==
    \E c, d \in CallIds :
        /\ calls[c].pc = "thrown"
        /\ calls[c].reqs = calls[c].opts.maxRetries + 1
        /\ RetriableStatus(calls[c].result[1].status)
        /\ calls[d].pc = "returned"
        /\ calls[d].reqs = 2

\* under fairness of the calls' steps, a call that was entered ends
C7_EventuallyEnds ==
    \A c \in CallIds : (calls[c].pc # "idle") ~> Ended(c)

\* min(baseDelay * 2^k, maxDelay)
ExpectedBackoff(opts, k) ==
    IF opts.baseDelay * Pow2(k) < opts.maxDelay
    THEN opts.baseDelay * Pow2(k) ELSE opts.maxDelay

\* C8, as claimed: when attempt k fails with a rate-limit or transient error
\* and a retry follows, the wait before the next provider request is
\* min(baseDelay * 2^k, maxDelay).
C8_WaitIsBackoff ==
    [][\A c \in CallIds :
        (Sent(c) /\ calls[c].reqs >= 1) =>
            calls[c].slept = ExpectedBackoff(calls[c].opts, calls'[c].attempt - 1)]_vars

\* C8, amended: after a rate-limit error the wait is min(baseDelay * 2^k,
\* maxDelay); after a transient error it is that backoff plus the shared
\* rateLimitDelay which another call's 429 has left pending when the backoff
\* sleep ends (itself the capped backoff of that other call), and exactly the
\* backoff when none is pending.
C8_WaitIsBackoffPlusShared ==
    [][\A c \in CallIds :
        (Sent(c) /\ calls[c].reqs >= 1) =>
            /\ calls[c].slept =
                  ExpectedBackoff(calls[c].opts, calls'[c].attempt - 1) + calls[c].extra
            /\ calls[c].extra > 0 =>
                  /\ calls[c].lastError[1].status # Some(429)
                  /\ \E o \in RetryOptions : \E k \in 0..(o.maxRetries) :
                        calls[c].extra = ExpectedBackoff(o, k)]_vars

\* a call that the provider answered 429 three times and then served, with
\* the default delays: it has made four requests
C8_Witness ==
    \E c \in CallIds :
        /\ calls[c].opts = DefaultRetry
        /\ calls[c].pc = "returned"
        /\ calls[c].reqs = 4
        /\ calls[c].lastError = Some([status |-> Some(429), at |-> 3])
        /\ calls[c].result # None

\* C9: after a request is answered 429 and its backoff delay D is recorded in
\* rateLimitDelay, the next provider request issued through the instance, by
\* any call, is preceded by a sleep of at least D.
C9_SharedDelayHonored ==
    [][\A c \in CallIds : Sent(c) => calls[c].slept >= owed]_vars

\* C10: a provider failure is retried only if its status is 429, >= 500 or
\* 408; any other failure, an error with no status included, aborts the call
\* at once: no further request, no sleep, and that error is the one thrown.
C10_OnlyRetriableRetried ==
    [][\A c \in CallIds :
        /\ (calls[c].pc = "request" /\ calls'[c].lastError # calls[c].lastError
            /\ ~ RetriableStatus(calls'[c].lastError[1].status)) =>
                /\ calls'[c].pc = "thrown"
                /\ calls'[c].result = Some([status |-> calls'[c].lastError[1].status,
                                            at |-> calls[c].reqs])
                /\ calls'[c].reqs = calls[c].reqs
                /\ calls'[c].slept = calls[c].slept
        /\ (Sent(c) /\ calls[c].reqs >= 1) =>
                RetriableStatus(calls[c].lastError[1].status)
        /\ calls[c].pc = "thrown" => calls'[c] = calls[c]]_vars

\* a call that was retried once and then failed with an error that carries
\* no status: it has thrown that second error
C10_Witness ==
    \E c \in CallIds :
        /\ calls[c].pc = "thrown"
        /\ calls[c].reqs = 2
        /\ calls[c].result = Some([status |-> None, at |-> 2])

\* C11: createChatCompletion fails with the input-too-large error exactly
\* when the estimated input tokens, ceil(length / 3.5), exceed maxInputTokens
\* (an estimate equal to the ceiling is admitted); it then sends no provider
\* request, performs no sleep or retry, and leaves rateLimitDelay unchanged.
C11_InputTooLargeExact ==
    [][\A c \in CallIds :
        (calls[c].pc = "idle" /\ calls'[c].pc # "idle") =>
            LET tooLarge == 2 * calls'[c].len > 7 * 100000
                failed == /\ calls'[c].pc = "thrown"
                          /\ calls'[c].result = Some([status |-> None, at |-> 0])
            IN  /\ tooLarge <=> failed
                /\ tooLarge =>
                        /\ calls'[c].reqs = 0
                        /\ calls'[c].slept = 0
                        /\ calls'[c].attempt = 0
                        /\ rateLimitDelay' = rateLimitDelay
                        /\ owed' = owed]_vars

\* a call was refused for its size while a rate-limit delay was pending:
\* that of another call, admitted with an estimate equal to the ceiling
C11_Witness ==
    \E c, d \in CallIds :
        /\ calls[c].pc = "thrown"
        /\ calls[c].reqs = 0
        /\ 2 * calls[c].len > 7 * 100000
        /\ rateLimitDelay > 0
        /\ calls[d].pc = "sleepRL"
        /\ calls[d].reqs = 1
        /\ 2 * calls[d].len = 7 * 100000

(***************************************************************************)
(* SpecCost: calculateCost as a function. Init draws a model name and the  *)
(* token counts of a usage report, and the action computes the cost.       *)
(***************************************************************************)
CostModels == {"gpt-4o-mini", "gpt-4", "gpt-4-turbo", "gpt-4o", "gpt-3.5-turbo", ""}

CostTokens == {0, 1, 7, 150, 2000, 20000}

InitCost ==
    /\ now = StartTime
    /\ steps = 0
    /\ limit = 0
    /\ ret \in {[op |-> "arguments", model |-> m, inputTokens |-> i, outputTokens |-> o] :
                    m \in CostModels, i \in CostTokens, o \in CostTokens}
    /\ cache = << >>
    /\ totalHits = 0
    /\ totalRequests = 0
    /\ usage = << >>
    /\ conversations = << >>
    /\ nextId = 1
    /\ GatewayIdle
    /\ RouterIdle

CalculateCost ==
    /\ ret.op = "arguments"
    /\ ret' = [op |-> "calculateCost", model |-> ret.model,
               inputTokens |-> ret.inputTokens, outputTokens |-> ret.outputTokens,
               tenths |-> costTenths(ret.model, ret.inputTokens, ret.outputTokens)]
    /\ UNCHANGED <<now, steps, limit, cacheVars, usage, convVars, gwVars, routerVars>>

NextCost == CalculateCost

SpecCost == InitCost /\ [][NextCost]_vars

\* C26: for a model of the price table the cost is (inputTokens * input
\* price + outputTokens * output price) / 1,000,000 with that model's prices
\* per million; for any other model name it is what the formula gives with
\* gpt-4o-mini's prices; it is never negative. Prices below are in cents per
\* million tokens; a cost of t tenths of a money unit is t / 80,000,000
\* dollars, so t = (4 / 5) * (inputTokens * cents + outputTokens * cents).
C26_CostFormula ==
    ret.op = "calculateCost" =>
        LET cents == CASE ret.model = "gpt-4" -> <<3000, 6000>>
                       [] ret.model = "gpt-4-turbo" -> <<1000, 3000>>
                       [] ret.model = "gpt-4o" -> <<250, 1000>>
                       [] OTHER -> <<15, 60>>
        IN  /\ 5 * ret.tenths = 4 * (ret.inputTokens * cents[1] + ret.outputTokens * cents[2])
            /\ ret.tenths >= 0

\* the cost of 2000 input and 150 output tokens for a model that is not in
\* the table: 0.00039 dollars, as for gpt-4o-mini
C26_Witness ==
    /\ ret.op = "calculateCost"
    /\ ret.model = "gpt-3.5-turbo"
    /\ ret.inputTokens = 2000
    /\ ret.outputTokens = 150
    /\ ret.tenths = 31200

(***************************************************************************)
(* The API router: POST /analyze-slides and POST /chat.                    *)
(* Each handler runs to its await of the analyzer in one step and from it  *)
(* to its response in another; the analyzer returns the gateway's result,  *)
(* or null for whatever the gateway throws.  A temperature is counted in   *)
(* thousandths.  A messages value that is not an array is None.            *)
(***************************************************************************)
DAILY_COST_LIMIT == 50 * 8000000

DAILY_TOKEN_LIMIT == 10000000

\* reported by GET /usage-stats; no handler passes it on to the analyzers
MAX_REQUEST_TOKENS == 50000

\* String.prototype.trim, with " " the whitespace
RECURSIVE trimStart(_)
trimStart(str) == IF str # << >> /\ str[1] = " " THEN trimStart(Tail(str)) ELSE str

RECURSIVE trimEnd(_)
trimEnd(str) ==
    IF str # << >> /\ str[Len(str)] = " "
    THEN trimEnd(SubSeq(str, 1, Len(str) - 1))
    ELSE str

trimLeadingOnly(str) == trimStart(str)

trim(str) == trimEnd(trimStart(str))

\* Math.round(temperature * 100) / 100, in hundredths
roundTemperature(t) == (t + 5) \div 10

createCacheKeyRaw(endpoint, messages, temperature, systemPrompt) ==
    << endpoint,
       [n \in 1..Len(messages) |->
            [role |-> messages[n].role, content |-> messages[n].content]],
       IF temperature # None THEN Some(roundTemperature(temperature[1])) ELSE None,
       systemPrompt >>

createCacheKeyNoPrompt(endpoint, messages, temperature, systemPrompt) ==
    << endpoint,
       [n \in 1..Len(messages) |->
            [role |-> messages[n].role, content |-> trim(messages[n].content)]],
       IF temperature # None THEN Some(roundTemperature(temperature[1])) ELSE None,
       None >>

\* ResponseCache.createCacheKey(endpoint, {messages, temperature?,
\* systemPrompt?}): the JSON text of {endpoint, messages as {role, trimmed
\* content} in the order given, temperature rounded, systemPrompt as given},
\* kept as the structure that the text spells out; JSON.stringify leaves out
\* a field that is undefined (None)
createCacheKey(endpoint, messages, temperature, systemPrompt) ==
    << endpoint,
       [n \in 1..Len(messages) |->
            [role |-> messages[n].role, content |-> trim(messages[n].content)]],
       IF temperature # None THEN Some(roundTemperature(temperature[1])) ELSE None,
       systemPrompt >>

RejectionCostOnly(us, t) ==
    LET limits == checkDailyLimits(us, DAILY_COST_LIMIT, DAILY_TOKEN_LIMIT, t)
    IN  IF limits.costExceeded
        THEN Some([error |-> "Daily cost limit exceeded", limit |-> DAILY_COST_LIMIT,
                   usage |-> getTodaysUsage(us, t)])
        ELSE None

\* the daily-limit check of both handlers: the 429 body, or None to go on
Rejection(us, t) ==
    LET limits == checkDailyLimits(us, DAILY_COST_LIMIT, DAILY_TOKEN_LIMIT, t)
    IN  IF limits.costExceeded
        THEN Some([error |-> "Daily cost limit exceeded", limit |-> DAILY_COST_LIMIT,
                   usage |-> getTodaysUsage(us, t)])
        ELSE IF limits.tokensExceeded
        THEN Some([error |-> "Daily token limit exceeded", limit |-> DAILY_TOKEN_LIMIT,
                   usage |-> getTodaysUsage(us, t)])
        ELSE None

ReqIds == 1..MaxInflight

HasFreeSlot == \E r \in ReqIds : inflight[r].pc = "free"

NextSlot == CHOOSE r \in ReqIds :
                /\ inflight[r].pc = "free"
                /\ \A q \in 1..(r - 1) : inflight[q].pc # "free"

RefuseAndTrack(op, req, status, body) ==
    /\ ret' = [op |-> op, phase |-> "begin", req |-> req, status |-> status,
               body |-> body, keyed |-> None, gateway |-> FALSE]
    /\ usage' = Append(usage, [endpoint |-> op, tokens |-> 0, timestamp |-> now, cost |-> 0])
    /\ UNCHANGED <<cacheVars, convVars, routerVars>>

\* a response sent before the cache is reached: nothing else changes
Refuse(op, req, status, body) ==
    /\ ret' = [op |-> op, phase |-> "begin", req |-> req, status |-> status,
               body |-> body, keyed |-> None, gateway |-> FALSE]
    /\ UNCHANGED <<cacheVars, usage, convVars, routerVars>>

\* cache.get(cacheKey) and what follows it up to the response or the await
LookUp(op, req, messages, temperature, convId) ==
    LET cacheKey == createCacheKey(op, messages, temperature, None)
        hit == CacheGetHit(cache, cacheKey, now)
        cachedResponse == CacheGetValue(cache, cacheKey, now)
        keyed == Some([endpoint |-> op, messages |-> messages,
                       temperature |-> temperature])
    IN  /\ totalRequests' = totalRequests + 1
        /\ totalHits' = IF hit THEN totalHits + 1 ELSE totalHits
        /\ cache' = CacheAfterGet(cache, cacheKey, now)
        /\ IF hit
           THEN /\ ret' = [op |-> op, phase |-> "begin", req |-> req, status |-> 200,
                           body |-> [content |-> cachedResponse[1].content,
                                     cost |-> cachedResponse[1].cost,
                                     cached |-> TRUE, tokensUsed |-> 0,
                                     conversationId |-> convId],
                           keyed |-> keyed, gateway |-> FALSE]
                /\ UNCHANGED inflight
           ELSE /\ HasFreeSlot
                /\ inflight' = [inflight EXCEPT ![NextSlot] =
                        [pc |-> "awaiting", endpoint |-> op, messages |-> messages,
                         temperature |-> temperature, key |-> cacheKey,
                         convId |-> convId]]
                /\ ret' = [op |-> op, phase |-> "begin", req |-> req, status |-> 0,
                           body |-> None, keyed |-> keyed, gateway |-> TRUE]
        /\ UNCHANGED <<usage, stored>>

\* POST /analyze-slides, up to its response or to await analyzeSlides(...)
AnalyzeSlides(req) ==
    LET rejection == Rejection(usage, now) IN
    /\ Budget
    /\ UNCHANGED now
    /\ UNCHANGED gwVars
    /\ IF req.messages = None
       THEN Refuse("analyze-slides", req, 400, Some([error |-> "Invalid messages format"]))
       ELSE IF rejection # None
       THEN Refuse("analyze-slides", req, 429, rejection)
       ELSE /\ LookUp("analyze-slides", req, req.messages[1], None, None)
            /\ UNCHANGED convVars

\* POST /analyze-slides, from the analyzer's answer to the response
AnalyzeSlidesResume(r, result) ==
    /\ Budget
    /\ inflight[r].pc = "awaiting"
    /\ inflight[r].endpoint = "analyze-slides"
    /\ IF result # None
       THEN /\ cache' = CacheSet(cache, inflight[r].key, result[1], None, now)
            /\ usage' = track(usage, "analyze-slides", result[1].tokensUsed,
                              Some(result[1].cost), now)
            /\ stored' = stored \cup {[endpoint |-> "analyze-slides",
                                       messages |-> inflight[r].messages,
                                       temperature |-> None, at |-> now]}
       ELSE UNCHANGED <<cache, usage, stored>>
    /\ inflight' = [inflight EXCEPT ![r] = FreeSlot]
    /\ ret' = [op |-> "analyze-slides", phase |-> "resume", status |-> 200,
               body |-> result, gateway |-> FALSE]
    /\ UNCHANGED <<now, totalHits, totalRequests, convVars, gwVars>>

\* POST /chat, up to its response or to await analyzeChat(...)
Chat(req) ==
    LET temperature == IF req.temperature = None THEN 800 ELSE req.temperature[1]
        creating == req.conversationId = None
        convId == IF creating THEN nextId ELSE req.conversationId[1]
        cs1 == IF creating
               THEN createConversation(conversations, nextId, req.systemPrompt, now)
               ELSE conversations
        msgs == req.messages[1]
        latestIsUser == msgs # << >> /\ msgs[Len(msgs)].role = "user"
        \* addMessage on a live conversation with content undefined:
        \* estimateTokens reads text.length and throws a TypeError
        throws == /\ latestIsUser
                  /\ "content" \notin DOMAIN msgs[Len(msgs)]
                  /\ ConvFind(cs1, convId) # 0
        cs2 == IF latestIsUser /\ ~ throws
               THEN addMessage(cs1, convId, "user", msgs[Len(msgs)].content, None, now)
               ELSE cs1
        conversationHistory == FormattedMessages(cs2, convId)
        rejection == Rejection(usage, now)
    IN  /\ Budget
        /\ UNCHANGED now
        /\ UNCHANGED gwVars
        /\ IF req.messages = None
           THEN Refuse("chat", req, 400, Some([error |-> "Invalid messages format"]))
           ELSE IF rejection # None
           THEN Refuse("chat", req, 429, rejection)
           ELSE IF throws
           THEN /\ creating => nextId <= MaxCreated
                /\ nextId' = IF creating THEN nextId + 1 ELSE nextId
                /\ conversations' = cs1
                /\ ret' = [op |-> "chat", phase |-> "begin", req |-> req,
                           status |-> 500, body |-> Some([error |-> "Chat failed"]),
                           keyed |-> None, gateway |-> FALSE]
                /\ UNCHANGED <<cacheVars, usage, routerVars>>
           ELSE /\ creating => nextId <= MaxCreated
                /\ nextId' = IF creating THEN nextId + 1 ELSE nextId
                /\ conversations' = getConversation(cs2, convId, now)
                /\ IF conversationHistory = None
                   THEN /\ ret' = [op |-> "chat", phase |-> "begin", req |-> req,
                                   status |-> 400,
                                   body |-> Some([error |-> "Invalid conversation ID"]),
                                   keyed |-> None, gateway |-> FALSE]
                        /\ UNCHANGED <<cacheVars, usage, routerVars>>
                   ELSE LookUp("chat", req, conversationHistory[1],
                               Some(temperature), Some(convId))

ChatResumeTrackNull(r, result) ==
    /\ Budget
    /\ inflight[r].pc = "awaiting"
    /\ inflight[r].endpoint = "chat"
    /\ IF result # None
       THEN /\ conversations' = addMessage(conversations, inflight[r].convId[1],
                                           "assistant", result[1].content,
                                           Some(result[1].tokensUsed), now)
            /\ cache' = CacheSet(cache, inflight[r].key, result[1], None, now)
            /\ usage' = track(usage, "chat", result[1].tokensUsed,
                              Some(result[1].cost), now)
            /\ stored' = stored \cup {[endpoint |-> "chat",
                                       messages |-> inflight[r].messages,
                                       temperature |-> inflight[r].temperature,
                                       at |-> now]}
       ELSE /\ usage' = track(usage, "chat", 0, None, now)
            /\ UNCHANGED <<conversations, cache, stored>>
    /\ inflight' = [inflight EXCEPT ![r] = FreeSlot]
    /\ ret' = [op |-> "chat", phase |-> "resume", status |-> 200,
               body |-> result, conversationId |-> inflight[r].convId,
               gateway |-> FALSE]
    /\ UNCHANGED <<now, totalHits, totalRequests, nextId, gwVars>>

\* POST /chat, from the analyzer's answer to the response
ChatResume(r, result) ==
    /\ Budget
    /\ inflight[r].pc = "awaiting"
    /\ inflight[r].endpoint = "chat"
    /\ IF result # None
       THEN /\ conversations' = addMessage(conversations, inflight[r].convId[1],
                                           "assistant", result[1].content,
                                           Some(result[1].tokensUsed), now)
            /\ cache' = CacheSet(cache, inflight[r].key, result[1], None, now)
            /\ usage' = track(usage, "chat", result[1].tokensUsed,
                              Some(result[1].cost), now)
            /\ stored' = stored \cup {[endpoint |-> "chat",
                                       messages |-> inflight[r].messages,
                                       temperature |-> inflight[r].temperature,
                                       at |-> now]}
       ELSE UNCHANGED <<conversations, cache, usage, stored>>
    /\ inflight' = [inflight EXCEPT ![r] = FreeSlot]
    /\ ret' = [op |-> "chat", phase |-> "resume", status |-> 200,
               body |-> result, conversationId |-> inflight[r].convId,
               gateway |-> FALSE]
    /\ UNCHANGED <<now, totalHits, totalRequests, nextId, gwVars>>

\* POST /clear-cache
ClearCache ==
    /\ Budget
    /\ cache' = << >>
    /\ totalHits' = 0
    /\ totalRequests' = 0
    /\ stored' = {}
    /\ ret' = [op |-> "clear-cache"]
    /\ UNCHANGED <<now, usage, convVars, gwVars, inflight>>

(***************************************************************************)
(* SpecRouter: the router on its singletons, up to MaxInflight handlers    *)
(* suspended at a time.  A behaviour starts from an idle server: one just  *)
(* started, or one that has served requests earlier in the day and had its *)
(* cache cleared, with the usage log one request short of the daily token  *)
(* limit, or past the daily cost limit.                                    *)
(***************************************************************************)
\* what the provider reports for a request with a long prompt
BusyReport == [prompt_tokens |-> 98000, completion_tokens |-> 2000, total_tokens |-> 100000]

\* the analyzer's result for a completion with this usage report
AnalyzerResult(content, usageReport) ==
    [content |-> content,
     tokensUsed |-> usageReport.total_tokens,
     cost |-> calculateCost("gpt-4o-mini", usageReport.prompt_tokens,
                            usageReport.completion_tokens)]

\* the log after n such requests, one a second, the last a second ago
PastUsage(n) ==
    [i \in 1..n |->
        [endpoint |-> "analyze-slides",
         tokens |-> AnalyzerResult(<< >>, BusyReport).tokensUsed,
         timestamp |-> StartTime - (n - i) - 1,
         cost |-> AnalyzerResult(<< >>, BusyReport).cost]]

NearTokenLimit ==
    PastUsage(DAILY_TOKEN_LIMIT \div AnalyzerResult(<< >>, BusyReport).tokensUsed - 1)

OverCostLimit ==
    PastUsage(DAILY_COST_LIMIT \div AnalyzerResult(<< >>, BusyReport).cost + 1)

\* what the analyzer gives back: null, a completion, an empty completion
\* whose response carried no usage
AnalyzerOutcomes ==
    { None,
      Some(AnalyzerResult(<<"o", "k">>, BusyReport)),
      Some(AnalyzerResult(<< >>,
             [prompt_tokens |-> 0, completion_tokens |-> 0, total_tokens |-> 0])) }

HelloPadded == <<" ">> \o Hello \o <<" ">>

\* req.body.messages: not an array, or an array of messages
MessageArrays ==
    { None,
      Some(<< [role |-> "user", content |-> Hello] >>),
      Some(<< [role |-> "user", content |-> HelloPadded] >>) }

SlideRequests == {[messages |-> m] : m \in MessageArrays}

ChatRequest(m, t, c, sp) ==
    [messages |-> m, temperature |-> t, conversationId |-> c, systemPrompt |-> sp]

UserSays(content) == Some(<< [role |-> "user", content |-> content] >>)

\* req.body of POST /chat: a malformed one; new conversations, without and
\* with a system prompt; turns of the first conversation; an unknown id
ChatRequests ==
    { ChatRequest(None, None, None, None),
      ChatRequest(UserSays(Hello), None, None, None),
      ChatRequest(UserSays(HelloPadded), Some(804), None, None),
      ChatRequest(UserSays(Hello), None, None, Some(Persona)),
      ChatRequest(UserSays(Hello), None, Some(1), None),
      ChatRequest(Some(<< [role |-> "assistant", content |-> Hello] >>), None, Some(1), None),
      ChatRequest(UserSays(Hello), None, Some(MaxCreated + 1), None) }

RouterTicks == {1, DEFAULT_TTL, DAY}

InitRouter ==
    /\ now = StartTime
    /\ steps = 0
    /\ \/ usage = << >> /\ limit = MaxRouterSteps
       \/ usage = NearTokenLimit /\ limit = MaxLoadedSteps
       \/ usage = OverCostLimit /\ limit = MaxOverSteps
    /\ ret = [op |-> "init"]
    /\ cache = << >>
    /\ totalHits = 0
    /\ totalRequests = 0
    /\ conversations = << >>
    /\ nextId = 1
    /\ GatewayIdle
    /\ RouterIdle

NextRouter ==
    \/ \E req \in SlideRequests : AnalyzeSlides(req)
    \/ \E r \in ReqIds, result \in AnalyzerOutcomes : AnalyzeSlidesResume(r, result)
    \/ \E req \in ChatRequests : Chat(req)
    \/ \E r \in ReqIds, result \in AnalyzerOutcomes : ChatResume(r, result)
    \/ ClearCache
    \/ Sweep
    \/ DeleteConversation(1)
    \/ \E d \in RouterTicks : Tick(d)

SpecRouter == InitRouter /\ [][NextRouter]_vars

\* ---- the claims about the router ----
\* a text without the spaces around it
Core(str) ==
    LET inked == {i \in 1..Len(str) : str[i] # " "}
    IN  IF inked = {} THEN << >>
        ELSE SubSeq(str, CHOOSE i \in inked : \A j \in inked : i <= j,
                         CHOOSE i \in inked : \A j \in inked : i >= j)

\* the same normalized content: endpoint, roles, contents up to surrounding
\* whitespace, temperature up to its second decimal
SameNormalized(a, b) ==
    /\ a.endpoint = b.endpoint
    /\ Len(a.messages) = Len(b.messages)
    /\ \A n \in 1..Len(a.messages) :
            /\ a.messages[n].role = b.messages[n].role
            /\ Core(a.messages[n].content) = Core(b.messages[n].content)
    /\ (a.temperature = None) = (b.temperature = None)
    /\ a.temperature # None =>
            \E h \in 0..200 : /\ 10 * h - 5 <= a.temperature[1]
                              /\ a.temperature[1] < 10 * h + 5
                              /\ 10 * h - 5 <= b.temperature[1]
                              /\ b.temperature[1] < 10 * h + 5

\* today's tracked tokens or cost, over the records lo..hi of the log
RECURSIVE TodayTotal(_, _, _)
TodayTotal(field, lo, hi) ==
    IF lo > hi THEN 0
    ELSE IF lo = hi
    THEN IF usage[lo].timestamp \div DAY # now \div DAY THEN 0
         ELSE IF field = "cost" THEN usage[lo].cost ELSE usage[lo].tokens
    ELSE TodayTotal(field, lo, (lo + hi) \div 2)
         + TodayTotal(field, (lo + hi) \div 2 + 1, hi)

LimitsReached ==
    \/ TodayTotal("cost", 1, Len(usage)) >= 50 * 8000000
    \/ TodayTotal("tokens", 1, Len(usage)) >= 10000000

RequestBegins == ret'.op \in {"analyze-slides", "chat"} /\ ret'.phase = "begin"

\* C2: if an analyze-slides or chat request completed with a gateway result,
\* a later request with the same normalized content, issued before the
\* entry's TTL elapses, with no cache clear in between and the daily limits
\* not reached, is a cache hit: cached = true, tokensUsed = 0, the gateway is
\* not called and no usage record is added.  (stored is emptied by a cache
\* clear; the cache of these behaviours never fills, so nothing is evicted.)
C2_RepeatIsCacheHit ==
    [][(/\ RequestBegins
        /\ ~ LimitsReached
        /\ \/ /\ ret'.op = "analyze-slides"
              /\ ret'.req.messages # None
              /\ \E g \in stored :
                    /\ SameNormalized(g, [endpoint |-> "analyze-slides",
                                          messages |-> ret'.req.messages[1],
                                          temperature |-> None])
                    /\ now - g.at < DEFAULT_TTL
           \/ /\ ret'.op = "chat"
              /\ ret'.keyed # None
              /\ \E g \in stored :
                    /\ SameNormalized(g, ret'.keyed[1])
                    /\ now - g.at < DEFAULT_TTL)
       => /\ ret'.status = 200
          /\ ret'.body.cached = TRUE
          /\ ret'.body.tokensUsed = 0
          /\ ret'.gateway = FALSE
          /\ usage' = usage
          /\ inflight' = inflight]_vars

\* a chat request was served from the cache although its message is the
\* stored one with spaces around it and its temperature 0.804, not 0.8
C2_Witness ==
    /\ ret.op = "chat"
    /\ ret.phase = "begin"
    /\ ret.status = 200
    /\ ret.body.cached = TRUE
    /\ ret.req.temperature = Some(804)
    /\ ret.keyed[1].messages[1].content = HelloPadded
    /\ \E g \in stored :
            /\ g.endpoint = "chat"
            /\ g.messages[1].content = Hello
            /\ g.temperature = Some(800)

\* C5: when today's tracked cost or tokens are at or above the daily limit, a
\* request with a messages array is rejected with 429 before any cache
\* lookup, conversation creation or gateway call, and the cache entries, the
\* hit/miss counters, the conversation store and the usage log stay as they
\* are; a request whose messages is not an array is rejected with 400, with
\* the same absence of effects.
C5_RejectedWithoutEffect ==
    [][RequestBegins =>
        /\ (ret'.req.messages # None /\ LimitsReached) => ret'.status = 429
        /\ ret'.req.messages = None => ret'.status = 400
        /\ (ret'.req.messages = None \/ LimitsReached) =>
                /\ ret'.gateway = FALSE
                /\ cache' = cache
                /\ totalHits' = totalHits
                /\ totalRequests' = totalRequests
                /\ conversations' = conversations
                /\ nextId' = nextId
                /\ usage' = usage
                /\ inflight' = inflight]_vars

\* an analyze-slides request was rejected with 429 over the token limit while
\* the cache holds a live entry for its fingerprint
C5_Witness ==
    /\ ret.op = "analyze-slides"
    /\ ret.phase = "begin"
    /\ ret.status = 429
    /\ ret.body[1].error = "Daily token limit exceeded"
    /\ \E i \in 1..Len(cache) :
            /\ cache[i].key[1] = "analyze-slides"
            /\ Len(cache[i].key[2]) = Len(ret.req.messages[1])
            /\ \A n \in 1..Len(cache[i].key[2]) :
                    /\ cache[i].key[2][n].role = ret.req.messages[1][n].role
                    /\ cache[i].key[2][n].content = Core(ret.req.messages[1][n].content)
            /\ now <= cache[i].expiresAt

\* C12: MAX_REQUEST_TOKENS is the ceiling the gateway enforces for the
\* analyzers' calls: no request whose estimated input tokens, length / 3.5
\* rounded up, exceed that value reaches the provider.
C12_RequestCeilingEnforced ==
    \A c \in CallIds :
        calls[c].reqs >= 1 => 2 * calls[c].len <= 7 * MAX_REQUEST_TOKENS

(***************************************************************************)
(* SpecKey: createCacheKey as a function. Init draws the arguments of two  *)
(* calls, as the handlers pass them (an endpoint name, an array of         *)
(* messages and, for chat, a temperature; no other field of data), and the *)
(* action makes both calls.                                                *)
(***************************************************************************)
HelloTrailing == Hello \o <<" ">>

HelLo == <<"h", "e", "l", " ", "l", "o">>

KeyContents == {Hello, HelloTrailing, HelloPadded, HelLo, <<" ">>, << >>}

KeyMessageArrays ==
    {<< >>}
    \cup {<< [role |-> r, content |-> c] >> : r \in {"user", "assistant"}, c \in KeyContents}
    \cup UNION {{ << [role |-> "user", content |-> c1], [role |-> "assistant", content |-> c2] >>,
                  << [role |-> "assistant", content |-> c2], [role |-> "user", content |-> c1] >> } :
                    c1 \in {Hello, HelloTrailing}, c2 \in {Hello, HelloPadded}}

\* temperatures in thousandths: 0.8, 0.804, 0.805, or none given
KeyTemperatures == {None, Some(800), Some(804), Some(805)}

KeyArguments ==
    [endpoint : {"analyze-slides", "chat"},
     messages : KeyMessageArrays,
     temperature : KeyTemperatures]

InitKey ==
    /\ now = StartTime
    /\ steps = 0
    /\ limit = 0
    /\ ret \in {[op |-> "arguments", a |-> a, b |-> b] : a \in KeyArguments, b \in KeyArguments}
    /\ cache = << >>
    /\ totalHits = 0
    /\ totalRequests = 0
    /\ usage = << >>
    /\ conversations = << >>
    /\ nextId = 1
    /\ GatewayIdle
    /\ RouterIdle

CreateCacheKeys ==
    /\ ret.op = "arguments"
    /\ ret' = [op |-> "createCacheKey", a |-> ret.a, b |-> ret.b,
               ka |-> createCacheKey(ret.a.endpoint, ret.a.messages, ret.a.temperature, None),
               kb |-> createCacheKey(ret.b.endpoint, ret.b.messages, ret.b.temperature, None)]
    /\ UNCHANGED <<now, steps, limit, cacheVars, usage, convVars, gwVars, routerVars>>

NextKey == CreateCacheKeys

SpecKey == InitKey /\ [][NextKey]_vars

\* C19: createCacheKey is a function of its arguments; two requests for the
\* same endpoint whose messages have the same roles in the same order and
\* contents equal up to leading and trailing whitespace, and whose
\* temperatures round to the same hundredth, get the same fingerprint (as
\* 'Hello ' and 'Hello' do); requests for different endpoints never share a
\* fingerprint.
C19_FingerprintNormalizes ==
    ret.op = "createCacheKey" =>
        /\ ret.a = ret.b => ret.ka = ret.kb
        /\ SameNormalized(ret.a, ret.b) => ret.ka = ret.kb
        /\ ret.a.endpoint # ret.b.endpoint => ret.ka # ret.kb

\* the fingerprints of 'Hello ' and 'Hello' for analyze-slides were computed
C19_Witness ==
    /\ ret.op = "createCacheKey"
    /\ ret.a = [endpoint |-> "analyze-slides",
                messages |-> << [role |-> "user", content |-> <<"h", "e", "l", "l", "o", " ">>] >>,
                temperature |-> << >>]
    /\ ret.b = [endpoint |-> "analyze-slides",
                messages |-> << [role |-> "user", content |-> <<"h", "e", "l", "l", "o">>] >>,
                temperature |-> << >>]
    /\ ret.ka = ret.kb

(***************************************************************************)
(* SpecChat: POST /chat alone, with the requests of SpecRouter and with    *)
(* requests whose last message carries its words as text and has no        *)
(* content (the form analyzeChat accepts besides content).                 *)
(***************************************************************************)
UserTexts(text) == Some(<< [role |-> "user", text |-> text] >>)

TextRequests ==
    { ChatRequest(UserTexts(Hello), None, None, None),
      ChatRequest(UserTexts(Hello), None, Some(1), None) }

InitChat ==
    /\ now = StartTime
    /\ steps = 0
    /\ limit = MaxChatSteps
    /\ ret = [op |-> "init"]
    /\ cache = << >>
    /\ totalHits = 0
    /\ totalRequests = 0
    /\ usage = << >>
    /\ conversations = << >>
    /\ nextId = 1
    /\ GatewayIdle
    /\ RouterIdle

NextChat ==
    \/ \E req \in ChatRequests \cup TextRequests : Chat(req)
    \/ \E r \in ReqIds, result \in AnalyzerOutcomes : ChatResume(r, result)
    \/ Tick(1)

SpecChat == InitChat /\ [][NextChat]_vars

\* C25: a chat request without conversationId that passes validation and
\* the limit check creates exactly one conversation, seeded with the system
\* prompt when one is given, and every response to it carries the new id;
\* a chat request with the id of a live conversation creates none.
C25_NewConversationIdReturned ==
    [][(steps' # steps /\ ret'.op = "chat") =>
        /\ (ret'.phase = "begin" /\ ret'.req.messages # << >> /\ ~ LimitsReached) =>
            IF ret'.req.conversationId = << >>
            THEN /\ nextId' = nextId + 1
                 /\ Len(conversations') = Len(conversations) + 1
                 /\ conversations'[Len(conversations')].id = nextId
                 /\ ret'.req.systemPrompt # << >> =>
                        LET first == conversations'[Len(conversations')].messages[1]
                        IN  first.role = "system" /\ first.content = ret'.req.systemPrompt[1]
                 /\ IF ret'.status = 0
                    THEN \E r \in ReqIds : /\ inflight[r].pc = "free"
                                           /\ inflight'[r].pc = "awaiting"
                                           /\ inflight'[r].convId = <<nextId>>
                    ELSE /\ ret'.status = 200
                         /\ ret'.body.conversationId = <<nextId>>
            ELSE /\ nextId' = nextId
                 /\ Len(conversations') = Len(conversations)
        /\ ret'.phase = "resume" =>
                \E r \in ReqIds : /\ inflight[r].pc = "awaiting"
                                  /\ inflight'[r].pc = "free"
                                  /\ ret'.conversationId = inflight[r].convId
                                  /\ ret'.conversationId # << >>]_vars

\* C27: there is no single flight per key. A request that looks up a
\* fingerprint which another request is waiting on the gateway for, and which
\* the cache does not hold, misses and calls the gateway too; every request
\* that comes back from the gateway with a result adds a usage record and
\* writes its result under its fingerprint, over whatever an earlier request
\* wrote there: the last write wins.
C27_NoSingleFlight ==
    [][steps' # steps =>
        /\ (/\ RequestBegins
            /\ ret'.keyed # << >>
            /\ \E r \in ReqIds :
                    /\ inflight[r].pc = "awaiting"
                    /\ SameNormalized(ret'.keyed[1],
                                      [endpoint |-> inflight[r].endpoint,
                                       messages |-> inflight[r].messages,
                                       temperature |-> inflight[r].temperature])
                    /\ \A i \in 1..Len(cache) : cache[i].key # inflight[r].key) =>
                /\ ret'.gateway
                /\ totalHits' = totalHits
                /\ \E q \in ReqIds : /\ inflight[q].pc = "free"
                                     /\ inflight'[q].pc = "awaiting"
        /\ (/\ ret'.op \in {"analyze-slides", "chat"}
            /\ ret'.phase = "resume"
            /\ ret'.body # << >>) =>
                \E r \in ReqIds :
                    /\ inflight[r].pc = "awaiting"
                    /\ inflight'[r].pc = "free"
                    /\ Len(usage') = Len(usage) + 1
                    /\ usage'[Len(usage')].endpoint = ret'.op
                    /\ usage'[Len(usage')].tokens = ret'.body[1].tokensUsed
                    /\ \E i \in 1..Len(cache') :
                            /\ cache'[i].key = inflight[r].key
                            /\ cache'[i].data = ret'.body[1]
                            /\ cache'[i].timestamp = now
                    /\ Cardinality({i \in 1..Len(cache') : cache'[i].key = inflight[r].key}) = 1]_vars

\* two requests for the same slides overlapped: both missed, both came back
\* from the gateway with different results and were tracked, and the cache
\* holds the result of the one that came back last
C27_Witness ==
    /\ steps = 4
    /\ ret.op = "analyze-slides"
    /\ ret.phase = "resume"
    /\ totalRequests = 2
    /\ totalHits = 0
    /\ Len(usage) = 2
    /\ usage[1].tokens # usage[2].tokens
    /\ Len(cache) = 1
    /\ cache[1].data = ret.body[1]
    /\ cache[1].data.tokensUsed = usage[2].tokens
    /\ \A r \in ReqIds : inflight[r].pc = "free"

\* the stored conversation id ends with a user message of this content and
\* then the assistant message of that content
EndsWithTurn(cs, id, said, answered) ==
    \E i \in 1..Len(cs) :
        /\ cs[i].id = id
        /\ LET ms == cs[i].messages
           IN  /\ Len(ms) >= 2
               /\ ms[Len(ms) - 1].role = "user"
               /\ ms[Len(ms) - 1].content = said
               /\ ms[Len(ms)].role = "assistant"
               /\ ms[Len(ms)].content = answered

(***************************************************************************)
(* SpecChatSeq: POST /chat with its requests handled one after the other:  *)
(* a request arrives only when no handler is suspended at its await.       *)
(***************************************************************************)
InitChatSeq ==
    /\ now = StartTime
    /\ steps = 0
    /\ limit = MaxSeqSteps
    /\ ret = [op |-> "init"]
    /\ cache = << >>
    /\ totalHits = 0
    /\ totalRequests = 0
    /\ usage = << >>
    /\ conversations = << >>
    /\ nextId = 1
    /\ GatewayIdle
    /\ RouterIdle

NextChatSeq ==
    \/ /\ \A q \in ReqIds : inflight[q].pc = "free"
       /\ \E req \in ChatRequests : Chat(req)
    \/ \E r \in ReqIds, result \in AnalyzerOutcomes : ChatResume(r, result)
    \/ Tick(1)

SpecChatSeq == InitChatSeq /\ [][NextChatSeq]_vars

\* C28: with chat requests handled one after the other, every user message
\* whose request returned content, from the gateway or from the cache, is
\* immediately followed in the store by the assistant message with that
\* content.
C28_UserThenAssistant ==
    [][(steps' # steps /\ ret'.op = "chat" /\ ret'.status = 200) =>
        /\ (/\ ret'.phase = "begin"
            /\ ret'.req.messages[1][Len(ret'.req.messages[1])].role = "user") =>
                EndsWithTurn(conversations', ret'.body.conversationId[1],
                             ret'.req.messages[1][Len(ret'.req.messages[1])].content,
                             ret'.body.content)
        /\ (ret'.phase = "resume" /\ ret'.body # << >>) =>
                \E r \in ReqIds :
                    /\ inflight[r].pc = "awaiting"
                    /\ LET asked == inflight[r].messages
                       IN  asked[Len(asked)].role = "user" =>
                                EndsWithTurn(conversations', ret'.conversationId[1],
                                             asked[Len(asked)].content, ret'.body[1].content)]_vars

C34_ReorderingSameFingerprint ==
    ret.op = "createCacheKey" =>
        ((/\ ret.a.endpoint = ret.b.endpoint
          /\ ret.a.temperature = ret.b.temperature
          /\ Len(ret.a.messages) = Len(ret.b.messages)
          /\ \E f \in Permutations(1..Len(ret.a.messages)) :
                ret.b.messages = [n \in 1..Len(ret.a.messages) |-> ret.a.messages[f[n]]])
         => ret.ka = ret.kb)

(***************************************************************************)
(* SpecKeyPrompt: createCacheKey as a function of data that may carry a    *)
(* systemPrompt field. Init draws the arguments of two calls and the       *)
(* action makes both calls.                                                *)
(***************************************************************************)
PromptArguments ==
    [endpoint : {"analyze-slides", "chat"},
     messages : {<< >>, << [role |-> "user", content |-> Hello] >>,
                 << [role |-> "user", content |-> HelloTrailing] >>},
     temperature : {None, Some(800)},
     systemPrompt : {None, Some(<< >>), Some(Persona), Some(Hello)}]

InitKeyPrompt ==
    /\ now = StartTime
    /\ steps = 0
    /\ limit = 0
    /\ ret \in {[op |-> "arguments", a |-> a, b |-> b] :
                    a \in PromptArguments, b \in PromptArguments}
    /\ cache = << >>
    /\ totalHits = 0
    /\ totalRequests = 0
    /\ usage = << >>
    /\ conversations = << >>
    /\ nextId = 1
    /\ GatewayIdle
    /\ RouterIdle

CreateCacheKeysWithPrompt ==
    /\ ret.op = "arguments"
    /\ ret' = [op |-> "createCacheKey", a |-> ret.a, b |-> ret.b,
               ka |-> createCacheKey(ret.a.endpoint, ret.a.messages, ret.a.temperature,
                                     ret.a.systemPrompt),
               kb |-> createCacheKey(ret.b.endpoint, ret.b.messages, ret.b.temperature,
                                     ret.b.systemPrompt)]
    /\ UNCHANGED <<now, steps, limit, cacheVars, usage, convVars, gwVars, routerVars>>

NextKeyPrompt == CreateCacheKeysWithPrompt

SpecKeyPrompt == InitKeyPrompt /\ [][NextKeyPrompt]_vars

\* C33: the fingerprint excludes the systemPrompt content: two createCacheKey
\* inputs with the same endpoint, messages and temperature that differ only
\* in their systemPrompt field yield the same fingerprint.
C33_PromptExcluded ==
    ret.op = "createCacheKey" =>
        ((/\ ret.a.endpoint = ret.b.endpoint
          /\ ret.a.messages = ret.b.messages
          /\ ret.a.temperature = ret.b.temperature)
         => ret.ka = ret.kb)

\* C33 as the code has it: the systemPrompt field is part of the fingerprint.
\* Two inputs with the same endpoint, messages and temperature yield the
\* same fingerprint exactly when their systemPrompt fields are the same.
C33_PromptIncluded ==
    ret.op = "createCacheKey" =>
        ((/\ ret.a.endpoint = ret.b.endpoint
          /\ ret.a.messages = ret.b.messages
          /\ ret.a.temperature = ret.b.temperature)
         => (ret.ka = ret.kb <=> ret.a.systemPrompt = ret.b.systemPrompt))

\* the fingerprints of two chat inputs that differ only in their personas
\* were computed, and differ
C33_Witness ==
    /\ ret.op = "createCacheKey"
    /\ ret.a.endpoint = "chat"
    /\ ret.b = [ret.a EXCEPT !.systemPrompt = Some(Hello)]
    /\ ret.a.systemPrompt = Some(Persona)
    /\ ret.a.messages # << >>
    /\ ret.ka # ret.kb

\* C36: when the gateway call of an analyze-slides or chat request fails
\* (the analyzer returns null), nothing is written to the cache and no usage
\* record is added; for chat, the user message appended to the conversation
\* before the call (it is the conversation's last message when the call
\* starts) is not rolled back: the failing request leaves the store as it is
\* and adds no assistant message.
C36_FailedCallLeavesNoTrace ==
    [][/\ (steps' # steps /\ ret'.op \in {"chat", "analyze-slides"}
            /\ ret'.phase = "resume" /\ ret'.body = None) =>
            /\ cache' = cache
            /\ usage' = usage
            /\ totalHits' = totalHits
            /\ totalRequests' = totalRequests
            /\ conversations' = conversations
       /\ (steps' # steps /\ ret'.op = "chat" /\ ret'.phase = "begin" /\ ret'.gateway) =>
            LET said == ret'.req.messages[1]
                id == IF ret'.req.conversationId = None THEN nextId
                      ELSE ret'.req.conversationId[1]
                ms == ConvOf(conversations', id).messages
            IN  (said # << >> /\ said[Len(said)].role = "user") =>
                    /\ ms # << >>
                    /\ ms[Len(ms)].role = "user"
                    /\ ms[Len(ms)].content = said[Len(said)].content
                    /\ ms[Len(ms)].timestamp = now]_vars

\* a chat request opened a conversation, its gateway call failed, and the
\* conversation holds the user message alone; nothing was cached or tracked
C36_Witness ==
    /\ ret.op = "chat"
    /\ ret.phase = "resume"
    /\ ret.body = None
    /\ steps = 2
    /\ cache = << >>
    /\ usage = << >>
    /\ Len(conversations) = 1
    /\ Len(conversations[1].messages) = 1
    /\ conversations[1].messages[1].role = "user"
    /\ conversations[1].id = ret.conversationId[1]

\* C37: every conversationId returned in a chat response identifies a
\* conversation that is live in the store at the moment the response is
\* produced, also when deleteConversation or other removals interleave with
\* the request while its gateway call is in flight.
C37_ReturnedIdIsLive ==
    (ret.op = "chat" /\ ret.status = 200) =>
        IF ret.phase = "resume"
        THEN ret.conversationId # None /\ ret.conversationId[1] \in IdsOf(conversations)
        ELSE ret.body.conversationId # None
                /\ ret.body.conversationId[1] \in IdsOf(conversations)

\* what a chat request with an id the store does not hold must find: the
\* answer 400 and nothing created, looked up, called or tracked
UnknownIdRefused ==
    /\ ret'.status = 400
    /\ ret'.body = Some([error |-> "Invalid conversation ID"])
    /\ ret'.gateway = FALSE
    /\ conversations' = conversations
    /\ nextId' = nextId
    /\ cache' = cache
    /\ totalHits' = totalHits
    /\ totalRequests' = totalRequests
    /\ inflight' = inflight
    /\ usage' = usage

\* C38: a chat request that supplies a conversationId not present in the
\* store is answered with 400 (invalid conversation id): it creates no
\* conversation, performs no cache lookup, makes no gateway call and adds no
\* usage record.
C38_UnknownIdIs400 ==
    [][(/\ steps' # steps /\ ret'.op = "chat" /\ ret'.phase = "begin"
        /\ ret'.req.conversationId # None
        /\ ret'.req.conversationId[1] \notin IdsOf(conversations))
       => UnknownIdRefused]_vars

\* C38 for the requests that reach the conversation store: a chat request
\* with a messages array, arriving while the daily limits are not reached,
\* that supplies a conversationId not present in the store is answered with
\* 400 (invalid conversation id) and creates, looks up, calls and tracks
\* nothing; when a daily limit is reached the answer is 429, with the same
\* absence of effects.
C38_UnknownIdIs400UnderLimits ==
    [][(/\ steps' # steps /\ ret'.op = "chat" /\ ret'.phase = "begin"
        /\ ret'.req.conversationId # None
        /\ ret'.req.conversationId[1] \notin IdsOf(conversations)
        /\ ret'.req.messages # None)
       => IF LimitsReached
          THEN /\ ret'.status = 429
               /\ ret'.gateway = FALSE
               /\ UNCHANGED <<conversations, nextId, cache, totalHits, totalRequests,
                              inflight, usage>>
          ELSE UnknownIdRefused]_vars

\* a chat request for a conversation that was deleted got the 400 answer; the
\* store is still empty, nothing was tracked, and the one lookup counted is
\* that of the request that had opened the conversation
C38_Witness ==
    /\ ret.op = "chat"
    /\ ret.phase = "begin"
    /\ ret.status = 400
    /\ ret.req.conversationId = Some(1)
    /\ ret.body = Some([error |-> "Invalid conversation ID"])
    /\ nextId = 2
    /\ conversations = << >>
    /\ totalRequests = 1
    /\ usage = << >>

====
